---- MODULE Spec2Model ----
(***************************************************************************)
(* A model of ptree (Winux-PTree): the cache-first directory-tree indexer. *)
(*                                                                         *)
(*   src/src/main.rs        main: open the cache, traverse, print          *)
(*   src/src/traversal.rs   traverse_disk and the dfs_worker threads       *)
(*   src/src/cache.rs       DiskCache: open, save, add_entry               *)
(*   src/crates/ptree-cache/src/cache_lazy.rs   LazyCache                  *)
(*                                                                         *)
(* A path is a sequence of names whose first element is the drive prefix.  *)
(* A file's content is a record: what was serialised into it and how many  *)
(* of its chunks have reached the file.                                    *)
(*                                                                         *)
(* What the environment can do to the program is part of the model: the    *)
(* drive root may not exist, read_dir may fail, every file operation of    *)
(* open and save may fail, a file may hold bytes that do not parse, and    *)
(* the process may die in the middle of a save.  Taken to succeed are      *)
(* std::env::current_dir, the build of the thread pool, the APPDATA lookup *)
(* (main has done it before traverse_disk does it again), entry.metadata() *)
(* and the locks (no thread panics while it holds one).  fs::rename is     *)
(* taken to replace its destination in one step.  RkyvCacheIndex is not    *)
(* among the source files; its model follows its use in cache_lazy.rs and  *)
(* the written description of the index.                                   *)
(*                                                                         *)
(* The same holds of RkyvDirEntry: a record of the data file is the four   *)
(* bytes of its length and one cell for each field of the entry.  usize    *)
(* is taken to be 64 bits wide.  The source has no call that maps the data *)
(* file again, so a client that wants to read what it appended opens the   *)
(* store again.                                                            *)
(***************************************************************************)
EXTENDS Integers, Sequences, FiniteSets, TLC

\* ------------------------------------------------------------------ bounds
\* Number of dfs_worker threads (args.threads).
NumWorkers == 2
\* Largest number of directory entries below the drive root.
MaxEntries == 2

Workers == 1..NumWorkers

\* ------------------------------------------------------------ program constants
\* traversal.rs:78  age.num_seconds() < 3600
FreshnessSecs == 3600
\* cache.rs:78  cache.flush_threshold = 10000
FlushThreshold == 10000
\* traversal.rs:242  children.len() > 100
ParSortThreshold == 100

\* ------------------------------------------------------------------- names
\* Names an entry of a directory can have; ".GIT" differs from the skip rule
\* ".git" in case only.
Names == {".GIT", "a", "b"}

\* The names of the files of a directory that has more entries than the
\* sort threshold: n001, n002, ...
BigName(i) ==
    "n" \o (IF i < 10 THEN "00" ELSE IF i < 100 THEN "0" ELSE "") \o ToString(i)
BigRank ==
    [n \in { BigName(i) : i \in 1..ParSortThreshold } |->
        CHOOSE i \in 1..ParSortThreshold : BigName(i) = n]

\* Byte order of the names (String's Ord): '.' < '\\' < 'a' < 'b', and a
\* name before the names it begins; 'n' comes after them all.
NameOrd(n) ==
    CASE n = "." -> 1 [] n = ".GIT" -> 2 [] n = "\\" -> 3 [] n = "a" -> 4
      [] n = "ab" -> 5 [] n = "b" -> 6
      [] OTHER -> IF n \in DOMAIN BigRank THEN 6 + BigRank[n] ELSE 0

\* str::to_ascii_lowercase, as used by eq_ignore_ascii_case.
Lower(n) == IF n = ".GIT" THEN ".git" ELSE n

\* Args::skip_dirs(): the rules the model's names can meet.
SkipDirs == {".git", "System32"}

\* A comparison that minds case.
should_skip_exact(name, skip_dirs) == name \in skip_dirs

\* traversal.rs:287-291
should_skip(name, skip_dirs) == \E skip \in skip_dirs : Lower(name) = Lower(skip)

\* ------------------------------------------------------------------- paths
\* PathBuf::from(format!("{}:\\", drive))
DriveRoot(drive) == <<drive>>

Drives == {"C:", "Z:"}

\* Path::file_name(): None for a root, which unwrap_or_default turns into "".
FileName(path) == IF Len(path) <= 1 THEN "" ELSE path[Len(path)]

\* Path::join
Join(path, name) == Append(path, name)

Parent(path) == SubSeq(path, 1, Len(path) - 1)

\* -------------------------------------------------------------- file system
\* The tree of drive C: a function from the paths that exist to their kind.
\*   "dir"      a directory read_dir can enumerate
\*   "denied"   a directory read_dir fails on
\*   "file"     a regular file
\*   "symlink"  a symbolic link to a directory
Kinds == {"dir", "denied", "file", "symlink"}

\* DirEntry::metadata() does not follow links: a link is no directory.
Metadata(kind) ==
    [is_dir |-> kind \in {"dir", "denied"}, is_symlink |-> kind = "symlink"]

\* The entries the model's trees are built from: a name and the kind of thing
\* that has it.
EntryChoices ==
    { <<".GIT", "dir">>, <<"a", "dir">>, <<"a", "symlink">>,
      <<"b", "dir">>, <<"b", "file">>, <<"b", "denied">> }

Grow(T) ==
    { T @@ (Join(p, e[1]) :> e[2]) :
        p \in {q \in DOMAIN T : T[q] = "dir"}, e \in EntryChoices }

RECURSIVE TreesUpTo(_)
TreesUpTo(n) ==
    IF n = 0 THEN { (DriveRoot("C:") :> "dir"), (DriveRoot("C:") :> "denied") }
    ELSE LET S == TreesUpTo(n - 1) IN S \cup UNION { Grow(T) : T \in S }

Trees == TreesUpTo(MaxEntries)

\* The trees the freshness policy is exercised on.
SmallTrees == TreesUpTo(1)

\* A test that finds every path.
ExistsAlways(fsys, path) == TRUE

\* Path::exists
Exists(fsys, path) == path \in DOMAIN fsys

\* Every link of the model points at the root of drive C:.  A path that goes
\* through a link names what the same path names with the link replaced by
\* its target.
RECURSIVE Resolve(_, _, _)
Resolve(fsys, path, k) ==
    IF k > Len(path) THEN path
    ELSE LET q == SubSeq(path, 1, k)
         IN IF q \in DOMAIN fsys /\ fsys[q] = "symlink"
            THEN Resolve(fsys, DriveRoot("C:") \o SubSeq(path, k + 1, Len(path)), 2)
            ELSE Resolve(fsys, path, k + 1)

\* What a path names once every link in it is followed (fs::read_dir and
\* Path::exists follow links).
Target(fsys, path) == Resolve(fsys, path, 2)

\* fs::read_dir succeeds on a readable directory, reached through links or not.
ReadDirOk(fsys, path) ==
    LET t == Target(fsys, path) IN t \in DOMAIN fsys /\ fsys[t] = "dir"

\* The names fs::read_dir yields.
ReadDir(fsys, path) ==
    { q[Len(q)] : q \in { r \in DOMAIN fsys : Parent(r) = Target(fsys, path) } }

\* What an entry of a directory is, the entry itself not followed.
EntryKind(fsys, dir, name) == fsys[Join(Target(fsys, dir), name)]

\* ------------------------------------------------------------------- files
\* cache.rs:333-339  get_cache_path(): %APPDATA%\ptree\cache\ptree.dat
CachePath == [stem |-> "ptree", ext |-> "dat"]

\* Path::with_extension
with_extension(p, ext) == [p EXCEPT !.ext = ext]

FileNames == { [stem |-> "ptree", ext |-> e] : e \in {"dat", "tmp", "idx", "cache"} }

\* A file that does not exist.
NoFile == [image |-> [fmt |-> "absent"], len |-> 0]
\* The bytes of a file: `image` is what the whole byte string encodes, `len`
\* how much of it is in the file: 0 nothing, 1 a proper prefix, 2 all of it.
EmptyFile == [image |-> [fmt |-> "empty"], len |-> 0]
Garbage == [image |-> [fmt |-> "garbage"], len |-> 2]
Whole(image) == [image |-> image, len |-> 2]
Prefix(content) == IF content.len = 2 THEN [content EXCEPT !.len = 1] ELSE content

\* ---------------------------------------------------------------- DiskCache
NoPath == <<>>
NoEntries == <<>>

Insert(m, k, v) == [x \in DOMAIN m \cup {k} |-> IF x = k THEN v ELSE m[x]]

\* cache.rs:66-73 and 81-88: the cache open builds when there is nothing to load.
NewDiskCache(t) ==
    [entries |-> NoEntries, last_scan |-> t, root |-> NoPath,
     last_scanned_root |-> NoPath, pending_writes |-> <<>>,
     flush_threshold |-> FlushThreshold]

\* bincode::serialize(&DiskCache): the #[serde(skip)] fields are left out.
SerializeCache(c) ==
    [fmt |-> "DiskCache", entries |-> c.entries, last_scan |-> c.last_scan,
     root |-> c.root, last_scanned_root |-> c.last_scanned_root]

\* bincode::deserialize::<DiskCache> succeeds on the complete bytes of a
\* serialised DiskCache only.
DeserializeCacheOk(content) ==
    content.len = 2 /\ content.image.fmt = "DiskCache"

\* The skipped fields come back as their Default.
DeserializeCache(content) ==
    [entries |-> content.image.entries, last_scan |-> content.image.last_scan,
     root |-> content.image.root,
     last_scanned_root |-> content.image.last_scanned_root,
     pending_writes |-> <<>>, flush_threshold |-> 0]

RECURSIVE InsertAll(_, _)
InsertAll(entries, writes) ==
    IF writes = <<>> THEN entries
    ELSE InsertAll(Insert(entries, Head(writes)[1], Head(writes)[2]), Tail(writes))

\* A flush that drops what was buffered.
flush_dropping(c) == [c EXCEPT !.pending_writes = <<>>]

\* cache.rs:123-127
flush_pending_writes(c) ==
    [c EXCEPT !.entries = InsertAll(c.entries, c.pending_writes),
              !.pending_writes = <<>>]

buffer_entry(c, path, entry) ==
    LET c1 == [c EXCEPT !.pending_writes = Append(@, <<path, entry>>)]
    IN IF Len(c1.pending_writes) >= c1.flush_threshold
       THEN flush_pending_writes(c1) ELSE c1

add_entry(c, path, entry) == buffer_entry(c, path, entry)

\* ------------------------------------------------------------------ sorting
\* The Vec of n elements that a function on 1..n gives.
Vec(f, n) == SubSeq(f, 1, n)

\* Vec::sort, a stable sort: every name goes to the place that the number
\* of names before it in the order, the equal ones ahead of it in the list
\* among them, gives it.
Sort(names) ==
    LET n == Len(names)
        ord == Vec([i \in 1..n |-> NameOrd(names[i])], n)
        place == Vec([i \in 1..n |->
                        1 + Cardinality({ j \in 1..n :
                              ord[j] < ord[i] \/ (ord[j] = ord[i] /\ j < i) })], n)
    IN Vec([k \in 1..n |-> names[CHOOSE i \in 1..n : place[i] = k]], n)

\* The merge of two sorted lists: a name of the first goes behind the names
\* of the second that are less, a name of the second behind the names of
\* the first that are not greater.
Merge(a, b) ==
    LET ordA == Vec([i \in DOMAIN a |-> NameOrd(a[i])], Len(a))
        ordB == Vec([j \in DOMAIN b |-> NameOrd(b[j])], Len(b))
        placeA == Vec([i \in DOMAIN a |->
                         i + Cardinality({ j \in DOMAIN b : ordB[j] < ordA[i] })],
                      Len(a))
        placeB == Vec([j \in DOMAIN b |->
                         j + Cardinality({ i \in DOMAIN a : ordA[i] <= ordB[j] })],
                      Len(b))
    IN Vec([k \in 1..(Len(a) + Len(b)) |->
               IF \E i \in DOMAIN a : placeA[i] = k
               THEN a[CHOOSE i \in DOMAIN a : placeA[i] = k]
               ELSE b[CHOOSE j \in DOMAIN b : placeB[j] = k]],
           Len(a) + Len(b))

\* rayon's par_sort: a merge sort of the two halves.
RECURSIVE ParSort(_)
ParSort(names) ==
    IF Len(names) <= 1 THEN names
    ELSE LET h == Len(names) \div 2
         IN Merge(ParSort(SubSeq(names, 1, h)),
                  ParSort(SubSeq(names, h + 1, Len(names))))

\* The children as read_dir yielded them.
children_as_read(children) == children

\* traversal.rs:242-250
sorted_children(children) ==
    IF Len(children) > ParSortThreshold THEN ParSort(children) ELSE Sort(children)

\* traversal.rs:256-265
MakeDirEntry(path, children, t) ==
    [path |-> path, name |-> FileName(path), modified |-> t, size |-> 0,
     children |-> sorted_children(children)]

\* ------------------------------------------------------------------- state
VARIABLES
    fs,           \* the directory tree of drive C:
    args,         \* cli::Args: drive, force
    cwd,          \* std::env::current_dir()
    now,          \* Utc::now()
    files,        \* the cache directory: file name -> content
    cache,        \* main's DiskCache (traverse_disk's &mut cache)
    pcMain,       \* where the main thread is
    ret,          \* what traverse_disk returned: DebugInfo or an error
    work_queue,   \* TraversalState.work_queue
    in_progress,  \* TraversalState.in_progress
    shared,       \* TraversalState.cache
    pc,           \* where each dfs_worker is
    dir_path,     \* each worker's popped path
    iter,         \* each worker's read_dir iterator: the names left
    children,     \* each worker's children Vec
    save,         \* the save in progress: step, data, paths
    locals,       \* traverse_disk's is_first_run and scan_root
    visits,       \* history: how often read_dir succeeded on each path
    claims,       \* history: how often each path was claimed
    lazy,         \* the LazyCache of the ptree-cache crate
    hist,         \* history: the last call on the LazyCache, what was appended
    walk,         \* the tree walk of an output function: stack, visited, output
    guards,       \* the lock guards each dfs_worker holds
    usn,          \* a USNTracker, the volume handles that are open, its caller
    cron,         \* the user's crontab and the scheduler task running on it
    entry         \* history: the cache and the files when traverse_disk was called

vars == <<fs, args, cwd, now, files, cache, pcMain, ret, work_queue,
          in_progress, shared, pc, dir_path, iter, children, save, locals,
          visits, claims, lazy, hist, walk, guards, usn, cron, entry>>

mainVars == <<cache, pcMain, ret, locals, entry>>
workerVars == <<work_queue, in_progress, shared, pc, dir_path, iter, children,
                visits, claims>>

Count(history, path) == IF path \in DOMAIN history THEN history[path] ELSE 0
Counted(history, path) == Insert(history, path, Count(history, path) + 1)
envVars == <<fs, args, cwd, now>>
\* What the commands outside the traversal work on.
sysVars == <<usn, cron>>

NoCache == [entries |-> NoEntries, last_scan |-> 0, root |-> NoPath,
            last_scanned_root |-> NoPath, pending_writes |-> <<>>,
            flush_threshold |-> 0]
NoRet == [kind |-> "none"]
Err(what) == [kind |-> "err", what |-> what]
\* traversal.rs:60  anyhow::bail!("Drive {} does not exist", drive)
DriveDoesNotExist(drive) == [kind |-> "err", what |-> "drive", drive |-> drive]
\* `before` is history: the destination's content when the save began.
IdleSave == [step |-> "idle", data |-> EmptyFile, path |-> CachePath,
             temp_path |-> CachePath, before |-> NoFile]

\* No output function is running.
NoWalk == [fn |-> "none", stack |-> <<>>, visited |-> {}, output |-> "",
          expanded |-> <<>>]
\* No USNTracker has been made.
NoUsn == [pc |-> "none"]
\* No scheduler task runs.
NoCron == [pc |-> "none"]
\* No worker holds a lock guard.
NoGuards == [w \in Workers |-> [held |-> {}, at |-> "out", pushing |-> NoPath]]

Dirs(fsys) == { p \in DOMAIN fsys : fsys[p] \in {"dir", "denied"} }

\* -------------------------------------------------------------- dfs_worker
\* A worker that polls the empty queue again instead of leaving.
PopNoBreak(w) ==
    /\ pc[w] = "pop"
    /\ work_queue # <<>>
    /\ dir_path' = [dir_path EXCEPT ![w] = Head(work_queue)]
    /\ work_queue' = Tail(work_queue)
    /\ pc' = [pc EXCEPT ![w] = "claim"]
    /\ UNCHANGED <<in_progress, shared, iter, children, visits, claims>>

\* traversal.rs:187-192, 280-283: pop the front of the queue; leave the loop
\* when the queue is empty.
Pop(w) ==
    /\ pc[w] = "pop"
    /\ IF work_queue = <<>>
       THEN /\ pc' = [pc EXCEPT ![w] = "done"]
            /\ UNCHANGED <<work_queue, dir_path>>
       ELSE /\ dir_path' = [dir_path EXCEPT ![w] = Head(work_queue)]
            /\ work_queue' = Tail(work_queue)
            /\ pc' = [pc EXCEPT ![w] = "claim"]
    /\ UNCHANGED <<in_progress, shared, iter, children, visits, claims>>

\* A claim that does not look at the set.
acquired_always(progress, path) == TRUE

\* traversal.rs:199: the path is claimed unless in_progress holds it.
acquired(progress, path) == path \notin progress

\* traversal.rs:197-207: test and insert under the in_progress mutex; a
\* path that is not acquired is dropped.
Claim(w) ==
    /\ pc[w] = "claim"
    /\ IF acquired(in_progress, dir_path[w])
       THEN /\ in_progress' = in_progress \cup {dir_path[w]}
            /\ claims' = Counted(claims, dir_path[w])
            /\ pc' = [pc EXCEPT ![w] = "read_dir"]
            /\ UNCHANGED dir_path
       ELSE /\ pc' = [pc EXCEPT ![w] = "pop"]
            /\ dir_path' = [dir_path EXCEPT ![w] = NoPath]
            /\ UNCHANGED <<in_progress, claims>>
    /\ UNCHANGED <<work_queue, shared, iter, children, visits>>

\* A worker that gives up on the first directory it cannot read.
EnumerateOrLeave(w) ==
    /\ pc[w] = "read_dir"
    /\ IF ReadDirOk(fs, dir_path[w])
       THEN /\ iter' = [iter EXCEPT ![w] = ReadDir(fs, dir_path[w])]
            /\ children' = [children EXCEPT ![w] = <<>>]
            /\ visits' = Counted(visits, dir_path[w])
            /\ pc' = [pc EXCEPT ![w] = "entries"]
       ELSE /\ pc' = [pc EXCEPT ![w] = "done"]
            /\ UNCHANGED <<iter, children, visits>>
    /\ UNCHANGED <<work_queue, in_progress, shared, dir_path, claims>>

\* traversal.rs:212-213: fs::read_dir(&path); a failure goes to the release.
Enumerate(w) ==
    /\ pc[w] = "read_dir"
    /\ IF ReadDirOk(fs, dir_path[w])
       THEN /\ iter' = [iter EXCEPT ![w] = ReadDir(fs, dir_path[w])]
            /\ children' = [children EXCEPT ![w] = <<>>]
            /\ visits' = Counted(visits, dir_path[w])
            /\ pc' = [pc EXCEPT ![w] = "entries"]
       ELSE /\ pc' = [pc EXCEPT ![w] = "release"]
            /\ UNCHANGED <<iter, children, visits>>
    /\ UNCHANGED <<work_queue, in_progress, shared, dir_path, claims>>

\* A test that takes a link to a directory for a directory.
queued_links(metadata) == metadata.is_dir \/ metadata.is_symlink

\* traversal.rs:229-230: only a directory that is no symlink is queued.
queued(metadata) == metadata.is_dir /\ ~metadata.is_symlink

\* traversal.rs:215-236: one entry of the iterator, in whatever order the
\* file system yields them.
NextEntry(w) ==
    /\ pc[w] = "entries"
    /\ \E file_name \in iter[w] :
        LET child_path == Join(dir_path[w], file_name) IN
        /\ iter' = [iter EXCEPT ![w] = @ \ {file_name}]
        /\ IF should_skip(file_name, SkipDirs)
           THEN UNCHANGED <<children, work_queue>>
           ELSE /\ children' = [children EXCEPT ![w] = Append(@, file_name)]
                /\ IF queued(Metadata(EntryKind(fs, dir_path[w], file_name)))
                   THEN work_queue' = Append(work_queue, child_path)
                   ELSE UNCHANGED work_queue
    /\ UNCHANGED <<in_progress, shared, pc, dir_path, visits, claims>>

\* traversal.rs:242-268: sort the children, build the entry, add it to the
\* shared cache under its write lock.
WriteEntry(w) ==
    /\ pc[w] = "entries"
    /\ iter[w] = {}
    /\ shared' = add_entry(shared, dir_path[w],
                           MakeDirEntry(dir_path[w], children[w], now))
    /\ pc' = [pc EXCEPT ![w] = "release"]
    /\ UNCHANGED <<work_queue, in_progress, dir_path, iter, children, visits, claims>>

\* A worker that leaves its claim in the set.
ReleaseKeeping(w) ==
    /\ pc[w] = "release"
    /\ pc' = [pc EXCEPT ![w] = "pop"]
    /\ dir_path' = [dir_path EXCEPT ![w] = NoPath]
    /\ children' = [children EXCEPT ![w] = <<>>]
    /\ UNCHANGED <<work_queue, in_progress, shared, iter, visits, claims>>

\* traversal.rs:275-278: the end of the loop body drops path and children.
Release(w) ==
    /\ pc[w] = "release"
    /\ in_progress' = in_progress \ {dir_path[w]}
    /\ pc' = [pc EXCEPT ![w] = "pop"]
    /\ dir_path' = [dir_path EXCEPT ![w] = NoPath]
    /\ children' = [children EXCEPT ![w] = <<>>]
    /\ UNCHANGED <<work_queue, shared, iter, visits, claims>>

\* traversal.rs:176-285: a step of worker w while the scope is open.
dfs_worker(w) ==
    /\ pcMain = "scope"
    /\ (Pop(w) \/ Claim(w) \/ Enumerate(w) \/ NextEntry(w) \/ WriteEntry(w) \/ Release(w))
    /\ UNCHANGED <<envVars, sysVars, walk, guards, hist, lazy, files, mainVars, save>>

\* ------------------------------------------------- the locks of dfs_worker
\* traversal.rs:27-33: the two mutexes and the write lock of TraversalState.
Locks == {"work_queue", "in_progress", "cache"}

\* A lock is free when no worker holds a guard of it.
Free(m) == \A v \in Workers : m \notin guards[v].held

\* Where a worker is about a guard: "out" of every locked block, "sorted"
\* with the children sorted and the entry built, "locked" with the guard
\* just taken, "used" with the operation under the guard done.
At(w, where) == guards[w].at = where
Guard(w, change) == guards' = [guards EXCEPT ![w] = change]

\* The lock the next statement of the worker takes, "none" when the next
\* statement takes no lock.
\* traversal.rs:188 pop, 198 claim, 231 push, 267 write, 276 release
wants(w) ==
    CASE pc[w] = "pop" /\ At(w, "out") -> "work_queue"
      [] pc[w] = "claim" /\ At(w, "out") -> "in_progress"
      [] pc[w] = "release" /\ At(w, "out") -> "in_progress"
      [] pc[w] = "entries" /\ At(w, "out") /\ guards[w].pushing # NoPath
            -> "work_queue"
      [] pc[w] = "entries" /\ At(w, "sorted") -> "cache"
      [] OTHER -> "none"

\* Mutex::lock, RwLock::write: the caller waits until the lock is free and
\* takes the guard, whatever guards it holds already.
Lock(w) ==
    /\ wants(w) # "none"
    /\ Free(wants(w))
    /\ Guard(w, [guards[w] EXCEPT !.held = @ \cup {wants(w)}, !.at = "locked"])
    /\ UNCHANGED workerVars

\* A guard that lives to the end of the loop body instead of its block.
DropLate(w) ==
    /\ At(w, "used")
    /\ Guard(w, [guards[w] EXCEPT
                    !.held = IF pc[w] \in {"pop", "done"} THEN {} ELSE @,
                    !.at = "out"])
    /\ UNCHANGED workerVars

\* traversal.rs:190, 205, 233, 269, 278: the block ends and drops its guard.
Drop(w) ==
    /\ At(w, "used")
    /\ Guard(w, [guards[w] EXCEPT !.held = {}, !.at = "out"])
    /\ UNCHANGED workerVars

\* The statement under the guard has run.
Used(w, m) ==
    /\ At(w, "locked")
    /\ m \in guards[w].held
    /\ Guard(w, [guards[w] EXCEPT !.at = "used"])

\* traversal.rs:187-190
LockedPop(w) == Pop(w) /\ Used(w, "work_queue")

\* traversal.rs:197-205
LockedClaim(w) == Claim(w) /\ Used(w, "in_progress")

\* traversal.rs:212: read_dir, under no guard.
OpenDir(w) == Enumerate(w) /\ At(w, "out") /\ UNCHANGED guards

\* traversal.rs:215-230: the next entry of the iterator; a directory that
\* is no symlink is to be pushed.
TakeEntry(w) ==
    /\ pc[w] = "entries"
    /\ At(w, "out")
    /\ guards[w].pushing = NoPath
    /\ \E file_name \in iter[w] :
        /\ iter' = [iter EXCEPT ![w] = @ \ {file_name}]
        /\ IF should_skip(file_name, SkipDirs)
           THEN UNCHANGED <<children, guards>>
           ELSE /\ children' = [children EXCEPT ![w] = Append(@, file_name)]
                /\ IF queued(Metadata(EntryKind(fs, dir_path[w], file_name)))
                   THEN Guard(w, [guards[w] EXCEPT
                                    !.pushing = Join(dir_path[w], file_name)])
                   ELSE UNCHANGED guards
    /\ UNCHANGED <<work_queue, in_progress, shared, pc, dir_path, visits, claims>>

\* traversal.rs:231-232
LockedPush(w) ==
    /\ pc[w] = "entries"
    /\ At(w, "locked")
    /\ "work_queue" \in guards[w].held
    /\ guards[w].pushing # NoPath
    /\ work_queue' = Append(work_queue, guards[w].pushing)
    /\ Guard(w, [guards[w] EXCEPT !.at = "used", !.pushing = NoPath])
    /\ UNCHANGED <<in_progress, shared, pc, dir_path, iter, children, visits,
                   claims>>

\* traversal.rs:242-265: the iterator is at its end; sort the children and
\* build the entry, under no guard.
SortChildren(w) ==
    /\ pc[w] = "entries"
    /\ At(w, "out")
    /\ iter[w] = {}
    /\ guards[w].pushing = NoPath
    /\ children' = [children EXCEPT ![w] = sorted_children(@)]
    /\ Guard(w, [guards[w] EXCEPT !.at = "sorted"])
    /\ UNCHANGED <<work_queue, in_progress, shared, pc, dir_path, iter, visits,
                   claims>>

\* traversal.rs:267-268
LockedWrite(w) ==
    /\ guards[w].pushing = NoPath
    /\ WriteEntry(w)
    /\ Used(w, "cache")

\* traversal.rs:275-278
LockedRelease(w) == Release(w) /\ Used(w, "in_progress")

\* traversal.rs:176-285: a statement of worker w, its locks taken and
\* dropped as steps of their own.
locking_worker(w) ==
    /\ pcMain = "scope"
    /\ \/ Lock(w)
       \/ LockedPop(w)
       \/ LockedClaim(w)
       \/ OpenDir(w)
       \/ TakeEntry(w)
       \/ LockedPush(w)
       \/ SortChildren(w)
       \/ LockedWrite(w)
       \/ LockedRelease(w)
       \/ Drop(w)
    /\ UNCHANGED <<envVars, sysVars, walk, hist, lazy, files, mainVars, save>>

\* --------------------------------------------------------------------- save
\* cache.rs:100 / cache_lazy.rs:161  File::create(&temp_path)
SaveCreate ==
    /\ save.step = "create"
    /\ \/ /\ files' = [files EXCEPT ![save.temp_path] = EmptyFile]
          /\ save' = [save EXCEPT !.step = "write"]
       \/ /\ save' = [save EXCEPT !.step = "err"]
          /\ UNCHANGED files

\* cache.rs:101 / cache_lazy.rs:162  file.write_all(&data): the bytes reach
\* the file a part at a time, and the call may fail with a part written.
SaveWrite ==
    /\ save.step = "write"
    /\ \/ /\ files[save.temp_path].len = 0
          /\ files' = [files EXCEPT ![save.temp_path] = Prefix(save.data)]
          /\ UNCHANGED save
       \/ /\ files[save.temp_path].len = 1
          /\ files' = [files EXCEPT ![save.temp_path] = save.data]
          /\ save' = [save EXCEPT !.step = "sync"]
       \/ /\ save' = [save EXCEPT !.step = "err"]
          /\ UNCHANGED files

\* cache.rs:102 / cache_lazy.rs:163-164  file.sync_all()
SaveSync ==
    /\ save.step = "sync"
    /\ \/ save' = [save EXCEPT !.step = "rename"]
       \/ save' = [save EXCEPT !.step = "err"]
    /\ UNCHANGED files

\* fs::rename replaces the destination in one step.
rename(fls, from, to) ==
    IF from = to THEN fls ELSE [fls EXCEPT ![to] = fls[from], ![from] = NoFile]

\* cache.rs:105 / cache_lazy.rs:166
SaveRename ==
    /\ save.step = "rename"
    /\ \/ /\ files' = rename(files, save.temp_path, save.path)
          /\ save' = [save EXCEPT !.step = "ok"]
       \/ /\ save' = [save EXCEPT !.step = "err"]
          /\ UNCHANGED files

SaveSteps == {"create", "write", "sync", "rename"}

SaveStep == SaveCreate \/ SaveWrite \/ SaveSync \/ SaveRename

\* A save that writes the destination itself.
DiskCacheSaveInPlace(self, path) ==
    /\ cache' = flush_pending_writes(self)
    /\ save' = [step |-> "create", data |-> Whole(SerializeCache(cache')),
                path |-> path, temp_path |-> path, before |-> files[path]]

\* A save that serialises the cache as it is and flushes afterwards.
DiskCacheSaveThenFlush(self, path) ==
    /\ cache' = flush_pending_writes(self)
    /\ save' = [step |-> "create", data |-> Whole(SerializeCache(self)),
                path |-> path, temp_path |-> with_extension(path, "tmp"),
                before |-> files[path]]

\* cache.rs:94-97: flush the buffer, serialise, name the temporary file.
DiskCacheSaveBegin(self, path) ==
    /\ cache' = flush_pending_writes(self)
    /\ save' = [step |-> "create", data |-> Whole(SerializeCache(cache')),
                path |-> path, temp_path |-> with_extension(path, "tmp"),
                before |-> files[path]]

\* The process dies in the middle of a save.
Crash ==
    /\ pcMain \in {"save", "lz_save"}
    /\ save.step \in SaveSteps
    /\ pcMain' = IF pcMain = "save" THEN "crashed" ELSE "lz_crashed"
    /\ UNCHANGED <<envVars, sysVars, walk, guards, hist, lazy, files, cache, ret, locals, entry, workerVars, save>>

\* --------------------------------------------------------- DiskCache::open
\* An open that reports the file it cannot parse.
open_outcome_strict(content, t) ==
    IF content # NoFile
    THEN IF DeserializeCacheOk(content)
         THEN [ok |-> TRUE, remove |-> FALSE,
               cache |-> [DeserializeCache(content) EXCEPT
                             !.pending_writes = <<>>,
                             !.flush_threshold = FlushThreshold]]
         ELSE [ok |-> FALSE, remove |-> FALSE, cache |-> NewDiskCache(t)]
    ELSE [ok |-> TRUE, remove |-> FALSE, cache |-> NewDiskCache(t)]

\* cache.rs:54-89: what open makes of the file's content.  A file that does
\* not parse gives a new cache and is removed; a missing file gives a new cache.
open_outcome(content, t) ==
    IF content # NoFile
    THEN IF DeserializeCacheOk(content)
         THEN [ok |-> TRUE, remove |-> FALSE,
               cache |-> [DeserializeCache(content) EXCEPT
                             !.pending_writes = <<>>,
                             !.flush_threshold = FlushThreshold]]
         ELSE [ok |-> TRUE, remove |-> TRUE, cache |-> NewDiskCache(t)]
    ELSE [ok |-> TRUE, remove |-> FALSE, cache |-> NewDiskCache(t)]

\* cache.rs:51-90.  create_dir_all, File::open and read_to_end can fail, and
\* open returns that error; the result of remove_file is ignored.
DiskCacheOpen(path) ==
    \/ /\ ret' = Err("io")
       /\ pcMain' = "exit"
       /\ UNCHANGED <<files, cache, entry>>
    \/ LET out == open_outcome(files[path], now) IN
       /\ IF out.ok
          THEN /\ cache' = out.cache
               /\ ret' = NoRet
               /\ pcMain' = "opened"
          ELSE /\ ret' = Err("parse")
               /\ pcMain' = "exit"
               /\ UNCHANGED cache
       /\ \/ /\ out.remove
             /\ files' = [files EXCEPT ![path] = NoFile]
          \/ UNCHANGED files
       /\ entry' = [cache |-> cache', files |-> files', opened |-> files[path]]

\* main.rs:36-37
MainOpen ==
    /\ pcMain = "start"
    /\ DiskCacheOpen(CachePath)
    /\ UNCHANGED <<envVars, sysVars, walk, guards, hist, lazy, workerVars, save, locals>>

\* ----------------------------------------------------------- traverse_disk
\* The age compared in the wrong unit.
fresh_minutes(force, age, entries) ==
    ~force /\ age < 60 /\ DOMAIN entries # {}

\* A check that forgets the force flag.
fresh_ignoring_force(force, age, entries) ==
    age < FreshnessSecs /\ DOMAIN entries # {}

\* traversal.rs:75-78
fresh(force, age, entries) ==
    ~force /\ age < FreshnessSecs /\ DOMAIN entries # {}

\* A scope that is the drive root on every run.
scan_scope_drive(is_first_run, drive, current_dir) == DriveRoot(drive)

\* traversal.rs:55-66
scan_scope(is_first_run, drive, current_dir) ==
    IF is_first_run THEN DriveRoot(drive) ELSE current_dir

\* A TraversalState that starts from an empty map.
clone_without_entries(c) == [c EXCEPT !.entries = NoEntries]

\* traversal.rs:100  cache.clone()
clone(c) == c

\* traversal.rs:50-131, up to the spawning of the workers.
TraverseBegin ==
    /\ pcMain = "opened"
    /\ LET is_first_run == DOMAIN cache.entries = {}
           scan_root == scan_scope(is_first_run, args.drive, cwd)
           c1 == [cache EXCEPT !.root = scan_root, !.last_scanned_root = scan_root]
       IN IF is_first_run /\ ~Exists(fs, Target(fs, scan_root))
          THEN /\ ret' = DriveDoesNotExist(args.drive)
               /\ pcMain' = "exit"
               /\ UNCHANGED <<cache, locals, workerVars>>
          ELSE IF fresh(args.force, now - c1.last_scan, c1.entries)
          THEN /\ cache' = c1
               /\ locals' = [is_first_run |-> is_first_run, scan_root |-> scan_root]
               /\ ret' = [kind |-> "ok", is_first_run |-> FALSE,
                          scan_root |-> c1.root, cache_used |-> TRUE,
                          total_dirs |-> Cardinality(DOMAIN c1.entries),
                          threads_used |-> 0]
               /\ pcMain' = "exit"
               /\ UNCHANGED workerVars
          ELSE /\ cache' = c1
               /\ locals' = [is_first_run |-> is_first_run, scan_root |-> scan_root]
               /\ work_queue' = <<scan_root>>
               /\ shared' = clone(c1)
               /\ in_progress' = {}
               /\ pc' = [w \in Workers |-> "pop"]
               /\ pcMain' = "scope"
               /\ UNCHANGED <<ret, dir_path, iter, children, visits, claims>>
    /\ UNCHANGED <<envVars, sysVars, walk, guards, hist, lazy, files, save, entry>>

\* A cache that keeps the time of the scan before.
not_stamped(c, t) == c

\* traversal.rs:146-147  *cache = final_cache; cache.last_scan = Utc::now()
stamped(c, t) == [c EXCEPT !.last_scan = t]

\* traversal.rs:131-151: the scope ends when every worker has returned; take
\* the shared cache back, stamp it, and call save.
TraverseJoin ==
    /\ pcMain = "scope"
    /\ \A w \in Workers : pc[w] = "done"
    /\ LET final_cache == stamped(shared, now)
       IN DiskCacheSaveBegin(final_cache, CachePath)
    /\ pcMain' = "save"
    /\ UNCHANGED <<envVars, sysVars, walk, guards, hist, lazy, files, ret, locals, entry, workerVars>>

MainSaveStep ==
    /\ pcMain = "save"
    /\ SaveStep
    /\ UNCHANGED <<envVars, sysVars, walk, guards, hist, lazy, mainVars, workerVars>>

\* traversal.rs:151-166: save's error is returned, else the DebugInfo.
TraverseReturn ==
    /\ pcMain = "save"
    /\ save.step \in {"ok", "err"}
    /\ ret' = IF save.step = "err" THEN Err("save")
              ELSE [kind |-> "ok", is_first_run |-> locals.is_first_run,
                    scan_root |-> cache.root, cache_used |-> FALSE,
                    total_dirs |-> Cardinality(DOMAIN cache.entries),
                    threads_used |-> NumWorkers]
    /\ pcMain' = "exit"
    /\ UNCHANGED <<envVars, sysVars, walk, guards, hist, lazy, files, cache, locals, entry, workerVars, save>>

\* ---------------------------------------------------------------- LazyCache
\* cache_lazy.rs:78  entry_cache_size: 1000
EntryCacheSize == 1000

\* The path a LazyCache is opened on; its files are the .idx and the .dat.
LazyPath == [stem |-> "ptree", ext |-> "cache"]

NoLazy == [open |-> FALSE]

\* History of the calls on the LazyCache: the last call, its arguments and
\* the LazyCache it was made on; every record append_entry has returned an
\* offset for, and the number of its calls; the paths get_entry has returned
\* an entry for, the latest first; whether every entry loaded since open was
\* loaded under the offsets the index has now; and how many of the paths
\* that overflow the entry cache the client has asked for.
NoHist == [op |-> "none", path |-> NoPath, args |-> <<>>, self |-> NoLazy,
           appended |-> <<>>, calls |-> 0, recency |-> <<>>, settled |-> TRUE,
           asked |-> 0]

\* RkyvCacheIndex::new(): no offsets, metadata at its defaults.
NewIndex(t) ==
    [offsets |-> <<>>, last_scan |-> t, root |-> NoPath,
     last_scanned_root |-> NoPath, skip_stats |-> <<>>, usn_state |-> 0]

\* bincode::serialize(&self.index)
SerializeIndex(index) == [fmt |-> "RkyvCacheIndex", index |-> index]

\* bincode::deserialize::<RkyvCacheIndex>
DeserializeIndexOk(content) ==
    content.len = 2 /\ content.image.fmt = "RkyvCacheIndex"

\* cache_lazy.rs:56-63: the index open loads; what does not parse, or is not
\* there, gives a new index.
load_index(content, t) ==
    IF content # NoFile
    THEN IF DeserializeIndexOk(content)
         THEN [ok |-> TRUE, index |-> content.image.index]
         ELSE [ok |-> TRUE, index |-> NewIndex(t)]
    ELSE [ok |-> TRUE, index |-> NewIndex(t)]

\* An open that looks into the data file: no mapping unless the file begins
\* with the length of a whole entry.
map_data_checked(content) ==
    IF content # NoFile /\ content.len > 0 /\ content.image.cells[1] = 8
    THEN [some |-> TRUE, bytes |-> content]
    ELSE [some |-> FALSE]

\* cache_lazy.rs:66-71: the data file is mapped when it exists and is not empty.
map_data(content) ==
    IF content # NoFile /\ content.len > 0
    THEN [some |-> TRUE, bytes |-> content]
    ELSE [some |-> FALSE]

\* cache_lazy.rs:49-80.  create_dir_all, File::open, read_to_end, metadata
\* and Mmap::map can fail, and open returns that error.
LazyOpen ==
    /\ pcMain = "lz_start"
    /\ LET index_path == with_extension(LazyPath, "idx")
           data_path == with_extension(LazyPath, "dat")
           loaded == load_index(files[index_path], now)
       IN \/ /\ ret' = Err("io")
             /\ pcMain' = "lz_exit"
             /\ UNCHANGED <<lazy, entry>>
          \/ /\ IF loaded.ok
                THEN /\ lazy' = [open |-> TRUE, index |-> loaded.index,
                                 mmap |-> map_data(files[data_path]),
                                 data_path |-> data_path, entry_cache |-> <<>>,
                                 entry_cache_size |-> EntryCacheSize]
                     /\ ret' = NoRet
                     /\ pcMain' = "lz_open"
                ELSE /\ ret' = Err("parse")
                     /\ pcMain' = "lz_exit"
                     /\ UNCHANGED lazy
             /\ entry' = [cache |-> loaded.index, files |-> files,
                          opened |-> files[index_path]]
    /\ hist' = [NoHist EXCEPT !.op = "open", !.appended = hist.appended,
                                 !.calls = hist.calls]
    /\ UNCHANGED <<envVars, sysVars, walk, guards, files, cache, locals, workerVars, save>>

\* The offset maps and roots a caller hands to update_index.
OffsetMaps ==
    { (DriveRoot("C:") :> 0),
      (DriveRoot("C:") :> 0) @@ (Join(DriveRoot("C:"), "a") :> 40) }

\* An update that keeps the offsets the new map does not name.
update_index_merge(lz, offsets, last_scan, root, last_scanned_root) ==
    [lz EXCEPT !.index.offsets = offsets @@ @, !.index.last_scan = last_scan,
               !.index.root = root, !.index.last_scanned_root = last_scanned_root]

\* cache_lazy.rs:218-229
update_index(lz, offsets, last_scan, root, last_scanned_root) ==
    [lz EXCEPT !.index.offsets = offsets, !.index.last_scan = last_scan,
               !.index.root = root, !.index.last_scanned_root = last_scanned_root]

\* History of an update_index call.
UpdateIndexCalled(offsets, last_scan, root, last_scanned_root) ==
    hist' = [hist EXCEPT !.op = "update_index", !.path = NoPath,
                         !.args = [offsets |-> offsets, last_scan |-> last_scan,
                                   root |-> root,
                                   last_scanned_root |-> last_scanned_root],
                         !.self = lazy,
                         !.settled = hist.settled /\ lazy.entry_cache = <<>>]

LazyUpdateIndex ==
    /\ pcMain = "lz_open"
    /\ \E offsets \in OffsetMaps, root \in {DriveRoot("C:")} :
          /\ lazy' = update_index(lazy, offsets, now, root, root)
          /\ UpdateIndexCalled(offsets, now, root, root)
    /\ lazy' # lazy
    /\ ret' = NoRet
    /\ UNCHANGED <<envVars, sysVars, walk, guards, files, cache, pcMain, locals, entry, workerVars, save>>

\* cache_lazy.rs:154-159: create_dir_all can fail; else serialise the index
\* and name the temporary file.
LazySaveIndexBegin ==
    /\ pcMain = "lz_open"
    /\ LET index_path == with_extension(LazyPath, "idx")
       IN \/ save' = [step |-> "create",
                      data |-> Whole(SerializeIndex(lazy.index)),
                      path |-> index_path,
                      temp_path |-> with_extension(index_path, "tmp"),
                      before |-> files[index_path]]
          \/ save' = [IdleSave EXCEPT !.step = "err", !.path = index_path,
                                      !.before = files[index_path]]
    /\ pcMain' = "lz_save"
    /\ ret' = NoRet
    /\ UNCHANGED <<envVars, sysVars, walk, guards, hist, lazy, files, cache, locals, entry, workerVars>>

LazySaveStep ==
    /\ pcMain = "lz_save"
    /\ SaveStep
    /\ UNCHANGED <<envVars, sysVars, walk, guards, hist, lazy, mainVars, workerVars>>

\* cache_lazy.rs:166-167: save_index returns rename's result.
LazySaveIndexReturn ==
    /\ pcMain = "lz_save"
    /\ save.step \in {"ok", "err"}
    /\ ret' = IF save.step = "err" THEN Err("save") ELSE [kind |-> "ok"]
    /\ pcMain' = "lz_open"
    /\ save' = IdleSave
    /\ UNCHANGED <<envVars, sysVars, walk, guards, hist, lazy, files, cache, locals, entry, workerVars>>

\* ------------------------------------------------------------- the data log
\* Indexed paths beyond the capacity of the entry cache.
ExtraLoads == 2
\* Largest number of append_entry calls on one data file.
MaxAppends == 2

\* The paths entries are stored under: the drive root, two directories of
\* it, and as many more as fill the entry cache and overflow it.
LruCount == EntryCacheSize + ExtraLoads
PathTable ==
    [i \in 1..(3 + LruCount) |->
        IF i = 1 THEN DriveRoot("C:")
        ELSE IF i = 2 THEN Join(DriveRoot("C:"), "a")
        ELSE IF i = 3 THEN Join(DriveRoot("C:"), "b")
        ELSE Join(DriveRoot("C:"), "n" \o ToString(i - 3))]
NameTable == [i \in DOMAIN PathTable |-> FileName(PathTable[i])]
ChildrenTable == << <<>>, <<"a">>, <<"a", "b">> >>
TargetTable == << [some |-> FALSE], [some |-> TRUE, target |-> DriveRoot("C:")] >>
BoolTable == <<FALSE, TRUE>>

\* The data file is a sequence of cells.  The four cells of a length prefix
\* are bytes; a cell of a payload stands for the bytes of one field, and is
\* the number the field's value is written as.
Code(table, v) == CHOOSE i \in DOMAIN table : table[i] = v

\* cache_lazy.rs:175-184: the RkyvDirEntry made of a DirEntry.
ToRkyv(dir_entry) ==
    [path |-> dir_entry.path, name |-> dir_entry.name, modified |-> dir_entry.modified,
     content_hash |-> dir_entry.content_hash, children |-> dir_entry.children,
     symlink_target |-> dir_entry.symlink_target, is_hidden |-> dir_entry.is_hidden,
     is_dir |-> dir_entry.is_dir]

\* A DirEntry that loses its children on the way back.
FromRkyvNoChildren(rkyv_entry) ==
    [path |-> rkyv_entry.path, name |-> rkyv_entry.name,
     modified |-> rkyv_entry.modified, content_hash |-> rkyv_entry.content_hash,
     children |-> <<>>, symlink_target |-> rkyv_entry.symlink_target,
     is_hidden |-> rkyv_entry.is_hidden, is_dir |-> rkyv_entry.is_dir]

\* cache_lazy.rs:119-128: the DirEntry made of a RkyvDirEntry.
FromRkyv(rkyv_entry) ==
    [path |-> rkyv_entry.path, name |-> rkyv_entry.name,
     modified |-> rkyv_entry.modified, content_hash |-> rkyv_entry.content_hash,
     children |-> rkyv_entry.children, symlink_target |-> rkyv_entry.symlink_target,
     is_hidden |-> rkyv_entry.is_hidden, is_dir |-> rkyv_entry.is_dir]

\* bincode::serialize(&rkyv_entry): the fields in their order.
SerializeEntry(r) ==
    << Code(PathTable, r.path), Code(NameTable, r.name), r.modified + 1,
       r.content_hash + 1, Code(ChildrenTable, r.children),
       Code(TargetTable, r.symlink_target), Code(BoolTable, r.is_hidden),
       Code(BoolTable, r.is_dir) >>

\* bincode::deserialize::<RkyvDirEntry>: fails on cells that are no entry.
DeserializeEntryOk(cells) ==
    /\ Len(cells) = 8
    /\ cells[1] \in DOMAIN PathTable
    /\ cells[2] \in DOMAIN NameTable
    /\ cells[3] >= 1
    /\ cells[4] >= 1
    /\ cells[5] \in DOMAIN ChildrenTable
    /\ cells[6] \in DOMAIN TargetTable
    /\ cells[7] \in DOMAIN BoolTable
    /\ cells[8] \in DOMAIN BoolTable

DeserializeEntry(cells) ==
    [path |-> PathTable[cells[1]], name |-> NameTable[cells[2]],
     modified |-> cells[3] - 1, content_hash |-> cells[4] - 1,
     children |-> ChildrenTable[cells[5]], symlink_target |-> TargetTable[cells[6]],
     is_hidden |-> BoolTable[cells[7]], is_dir |-> BoolTable[cells[8]]]

\* u32::to_le_bytes of `len as u32`: the low four bytes of the length.
to_le_bytes(n) ==
    << n % 256, (n \div 256) % 256, (n \div 65536) % 256, (n \div 16777216) % 256 >>

\* u32::from_le_bytes, of cells read as bytes.  A value of 2^31 or more is
\* beyond every length there is here, and is given as 2^31 - 1.
from_le_bytes(b) ==
    IF b[4] % 256 >= 128 THEN 2147483647
    ELSE (b[1] % 256) + 256 * (b[2] % 256) + 65536 * (b[3] % 256)
         + 16777216 * (b[4] % 256)

\* The content of a data file, and the cells of a content.
LogFile(cells) ==
    IF cells = <<>> THEN EmptyFile ELSE Whole([fmt |-> "log", cells |-> cells])
Cells(content) == IF content.len = 0 THEN <<>> ELSE content.image.cells

\* What the calls return.
Some(v) == [kind |-> "ok", some |-> TRUE, value |-> v]
None == [kind |-> "ok", some |-> FALSE]
Panic == [kind |-> "panic"]

\* VecDeque: position of a path, remove, push_front, pop_back.
position(deque, path) ==
    LET found == { i \in DOMAIN deque : deque[i][1] = path }
    IN IF found = {} THEN 0
       ELSE CHOOSE i \in found : \A j \in found : i <= j
remove(deque, pos) == SubSeq(deque, 1, pos - 1) \o SubSeq(deque, pos + 1, Len(deque))
push_front(deque, x) == <<x>> \o deque
pop_back(deque) == SubSeq(deque, 1, Len(deque) - 1)

\* A hit that leaves the entry where it is.
hit_in_place(lz, path, pos) ==
    [lz |-> lz, ret |-> Some(lz.entry_cache[pos][2])]

\* A hit that pushes the entry to the front and leaves the old one behind.
hit_keeping(lz, path, pos) ==
    LET dir_entry == lz.entry_cache[pos][2]
    IN [lz |-> [lz EXCEPT !.entry_cache = push_front(@, <<path, dir_entry>>)],
        ret |-> Some(dir_entry)]

\* cache_lazy.rs:86-91: a hit moves the entry to the front.
hit(lz, path, pos) ==
    LET dir_entry == lz.entry_cache[pos][2]
    IN [lz |-> [lz EXCEPT !.entry_cache = push_front(remove(@, pos), <<path, dir_entry>>)],
        ret |-> Some(dir_entry)]

\* A load that never evicts.
load_unbounded(lz, path, dir_entry) ==
    [lz |-> [lz EXCEPT !.entry_cache = push_front(@, <<path, dir_entry>>)],
     ret |-> Some(dir_entry)]

\* cache_lazy.rs:130-136: a loaded entry goes to the front, and the back is
\* dropped when the deque is over its size.
load(lz, path, dir_entry) ==
    LET pushed == push_front(lz.entry_cache, <<path, dir_entry>>)
    IN [lz |-> [lz EXCEPT !.entry_cache =
                    IF Len(pushed) > lz.entry_cache_size THEN pop_back(pushed)
                    ELSE pushed],
        ret |-> Some(dir_entry)]

\* cache_lazy.rs:104-128: the record at an offset of the mapping.  Slicing
\* from an offset beyond the mapping's end panics.
read_at(lz, path, offset) ==
    LET mapped == Cells(lz.mmap.bytes)
    IN IF offset > Len(mapped) THEN [lz |-> lz, ret |-> Panic]
       ELSE LET data_slice == SubSeq(mapped, offset + 1, Len(mapped))
            IN IF Len(data_slice) < 4 THEN [lz |-> lz, ret |-> None]
               ELSE LET len == from_le_bytes(SubSeq(data_slice, 1, 4))
                    IN IF Len(data_slice) < 4 + len THEN [lz |-> lz, ret |-> None]
                       ELSE LET payload == SubSeq(data_slice, 5, 4 + len)
                            IN IF DeserializeEntryOk(payload)
                               THEN load(lz, path, FromRkyv(DeserializeEntry(payload)))
                               ELSE [lz |-> lz, ret |-> Err("decode")]

\* cache_lazy.rs:84-137
get_entry(lz, path) ==
    LET pos == position(lz.entry_cache, path)
    IN IF pos # 0 THEN hit(lz, path, pos)
       ELSE IF path \notin DOMAIN lz.index.offsets THEN [lz |-> lz, ret |-> None]
       ELSE IF ~lz.mmap.some THEN [lz |-> lz, ret |-> None]
       ELSE read_at(lz, path, lz.index.offsets[path])

\* cache_lazy.rs:141-151: get_entry on every key of the index, in the order
\* the HashMap yields them; an error of get_entry is returned at once.
RECURSIVE get_all_from(_, _, _)
get_all_from(lz, keys, entries) ==
    IF keys = <<>> THEN [lz |-> lz, ret |-> [kind |-> "ok", entries |-> entries]]
    ELSE LET got == get_entry(lz, Head(keys))
         IN IF got.ret.kind # "ok" THEN got
            ELSE get_all_from(got.lz, Tail(keys),
                              IF got.ret.some
                              THEN Insert(entries, Head(keys), got.ret.value)
                              ELSE entries)

get_all(lz, keys) == get_all_from(lz, keys, <<>>)

\* A record written over the start of the log.
append_at_start(cells, dir_entry) ==
    LET serialized == SerializeEntry(ToRkyv(dir_entry))
        record == to_le_bytes(Len(serialized)) \o serialized
    IN [offset |-> 0,
        cells |-> record \o SubSeq(cells, Len(record) + 1, Len(cells))]

\* cache_lazy.rs:191-200: the offset is the end of the file, and the length
\* and the serialised entry are written there.
append_entry(cells, dir_entry) ==
    LET serialized == SerializeEntry(ToRkyv(dir_entry))
        len == Len(serialized)
        offset == Len(cells)
    IN [offset |-> offset, cells |-> cells \o to_le_bytes(len) \o serialized]

\* ------------------------------------------------- the tree output functions
\* Longest chain of directories below the drive root in a cache handed to
\* the output functions.
MaxDepth == 2

\* The characters a name is written with.
Chars(name) ==
    CASE name = "C:" -> <<"C", ":">>
      [] name = "Z:" -> <<"Z", ":">>
      [] name = "ab" -> <<"a", "b">>
      [] name = ".GIT" -> <<".", "G", "I", "T">>
      [] OTHER -> <<name>>

\* Path::to_string_lossy: the prefix, the root separator, and the names with
\* a separator between them; nothing for the empty path.
RECURSIVE to_string_lossy(_)
to_string_lossy(path) ==
    IF path = <<>> THEN <<>>
    ELSE IF Len(path) = 1 THEN Chars(path[1]) \o <<"\\">>
    ELSE IF Len(path) = 2 THEN to_string_lossy(Parent(path)) \o Chars(path[2])
    ELSE to_string_lossy(Parent(path)) \o <<"\\">> \o Chars(path[Len(path)])

RECURSIVE Str(_)
Str(chars) == IF chars = <<>> THEN "" ELSE Head(chars) \o Str(Tail(chars))

\* Path::display
display(path) == Str(to_string_lossy(path))

\* Path::join (PathBuf::push): a name that begins at the root replaces all
\* of the path but its prefix; any other name is added, a "." too.
join(path, name) == IF name = "\\" THEN <<path[1]>> ELSE Append(path, name)

\* Path::components, by which PathBuf's Eq and Hash go: a "." within a path
\* is left out.
components(path) == LET Kept(n) == n # "." IN SelectSeq(path, Kept)

\* A guard that compares the paths as they are written.
contains_text(visited, path) == path \in visited

\* HashSet<PathBuf>::contains
contains(visited, path) == components(path) \in visited

\* cache.rs:135-137  DiskCache::get_entry
DiskCacheGetEntry(c, path) ==
    IF components(path) \in DOMAIN c.entries
    THEN Some(c.entries[components(path)]) ELSE None

\* colored: the text between the escape sequence of a style and the reset;
\* "^[" stands for the escape character.
Colored(style, text) == "^[[" \o style \o "m" \o text \o "^[[0m"
blue_bold(text) == Colored("1;34", text)
cyan(text) == Colored("36", text)
bright_blue(text) == Colored("94", text)

\* The three output functions.
OutputFns == {"build_tree_output", "build_colored_tree_output", "build_json_output"}

\* cache.rs:177-184, 240-247, 303-311: the beginning of a call of print_tree,
\* print_colored_tree or populate_json.  A path that was visited returns at
\* once; else it is marked, and if the cache has its entry a frame with the
\* sorted children is put on the stack.  `expanded` counts the frames a path
\* has had.
enter(wk, c, path, prefix, is_last, node) ==
    IF contains(wk.visited, path) THEN wk
    ELSE LET seen == [wk EXCEPT !.visited = @ \cup {components(path)}]
             got == DiskCacheGetEntry(c, path)
         IN IF got.some
            THEN [seen EXCEPT
                    !.stack = Append(@, [path |-> path,
                                         children |-> Sort(got.value.children),
                                         i |-> 1, prefix |-> prefix,
                                         is_last |-> is_last, node |-> node,
                                         children_array |-> <<>>]),
                    !.expanded = Counted(@, components(path))]
            ELSE seen

\* cache.rs:153-164, 216-227, 281-292 (main.rs:51-60 chooses the function):
\* the empty cache gives "(empty)" or the bare root object; else the root's
\* line, and the call for the root.
Build ==
    /\ pcMain = "print"
    /\ \E fn \in OutputFns :
          LET root == cache.root
              root_json == [path |-> to_string_lossy(root), children |-> <<>>]
              first == CASE fn = "build_tree_output" -> display(root) \o "\n"
                         [] fn = "build_colored_tree_output" ->
                                blue_bold(display(root)) \o "\n"
                         [] OTHER -> root_json
              start == [NoWalk EXCEPT !.fn = fn, !.output = first]
          IN IF DOMAIN cache.entries = {}
             THEN walk' = [start EXCEPT !.output = IF fn = "build_json_output"
                                                   THEN root_json ELSE "(empty)\n"]
             ELSE walk' = enter(start, cache, root, "", TRUE, root_json)
    /\ pcMain' = "printing"
    /\ ret' = NoRet
    /\ UNCHANGED <<envVars, sysVars, guards, hist, lazy, files, cache, locals, entry,
                   workerVars, save>>

\* cache.rs:186-205, 249-270, 313-323: one turn of the loop over the
\* children of the frame on top: the child's line or object, and the call
\* for the child's path.  "|   ", "|-- " and "+-- " stand for the box
\* drawing characters of the source.
WalkChild ==
    /\ pcMain = "printing"
    /\ walk.stack # <<>>
    /\ LET top == Len(walk.stack)
           f == walk.stack[top]
       IN /\ f.i <= Len(f.children)
          /\ LET child_name == f.children[f.i]
                 is_last_child == f.i = Len(f.children)
                 child_prefix == IF f.is_last THEN "    " ELSE "|   "
                 branch == IF is_last_child THEN "+-- " ELSE "|-- "
                 child_path == join(f.path, child_name)
                 child_json == [name |-> child_name,
                                path |-> to_string_lossy(child_path),
                                children |-> <<>>]
                 line == IF walk.fn = "build_tree_output"
                         THEN f.prefix \o branch \o child_name \o "\n"
                         ELSE f.prefix \o cyan(branch) \o bright_blue(child_name)
                                \o "\n"
                 stepped == [walk EXCEPT
                               !.stack[top].i = @ + 1,
                               !.output = IF walk.fn = "build_json_output" THEN @
                                          ELSE @ \o line]
                 after == enter(stepped, cache, child_path,
                                 f.prefix \o child_prefix, is_last_child, child_json)
             IN walk' = IF walk.fn = "build_json_output" /\ Len(after.stack) = top
                        THEN [after EXCEPT !.stack[top].children_array =
                                              Append(@, child_json)]
                        ELSE after
    /\ UNCHANGED <<envVars, sysVars, guards, hist, lazy, files, mainVars, workerVars, save>>

\* cache.rs:206-208, 325-328: the loop is over and the call returns; in
\* populate_json the node gets its children and goes into its parent's array.
WalkReturn ==
    /\ pcMain = "printing"
    /\ walk.stack # <<>>
    /\ LET top == Len(walk.stack)
           f == walk.stack[top]
           node == [f.node EXCEPT !.children = f.children_array]
           popped == SubSeq(walk.stack, 1, top - 1)
       IN /\ f.i > Len(f.children)
          /\ walk' = IF walk.fn # "build_json_output"
                     THEN [walk EXCEPT !.stack = popped]
                     ELSE IF top = 1
                     THEN [walk EXCEPT !.stack = popped, !.output = node]
                     ELSE [walk EXCEPT
                             !.stack = [popped EXCEPT ![top - 1].children_array =
                                                         Append(@, node)]]
    /\ UNCHANGED <<envVars, sysVars, guards, hist, lazy, files, mainVars, workerVars, save>>

\* cache.rs:166, 229, 294: the call for the root has returned; main prints
\* the output (main.rs:61).  serde_json's text of the root object is not
\* spelled out: the output is the object.
BuildReturn ==
    /\ pcMain = "printing"
    /\ walk.stack = <<>>
    /\ ret' = [kind |-> "ok", output |-> walk.output]
    /\ pcMain' = "printed"
    /\ UNCHANGED <<envVars, sysVars, walk, guards, hist, lazy, files, cache, locals, entry,
                   workerVars, save>>

\* -------------------------------------------------- DiskCache::remove_entry
\* str::starts_with, of texts as sequences of characters.
starts_with(text, prefix) ==
    Len(prefix) <= Len(text) /\ SubSeq(text, 1, Len(prefix)) = prefix

\* cache.rs:140-146: remove the entry of the path, then keep the entries
\* whose path's text does not begin with the path's text.
remove_entry(c, path) ==
    LET removed == [k \in DOMAIN c.entries \ {path} |-> c.entries[k]]
        prefix == to_string_lossy(path)
        retained == { k \in DOMAIN removed :
                        ~starts_with(to_string_lossy(k), prefix) \/ k = path }
    IN [c EXCEPT !.entries = [k \in retained |-> removed[k]]]

\* A caller of remove_entry; the cache before the call and the path are kept
\* in `entry`.
RemoveEntry ==
    /\ pcMain = "remove"
    /\ \E path \in DOMAIN cache.entries \cup {DriveRoot("C:")} :
          /\ cache' = remove_entry(cache, path)
          /\ entry' = [cache |-> cache, files |-> files, opened |-> NoFile,
                       path |-> path]
    /\ ret' = NoRet
    /\ UNCHANGED <<envVars, sysVars, walk, guards, hist, lazy, files, pcMain, locals,
                   workerVars, save>>

\* ------------------------------------------------------------ the program
\* The clock reading of the run.
Clock == 3 * FreshnessSecs

\* Ages of the last scan a saved cache can show, around the freshness window.
Ages == {600, FreshnessSecs - 1, FreshnessSecs}

\* Caches an earlier run can have saved: nothing scanned (the root could not
\* be read), or the root's entry as it was then.
OldRootEntry(t) == MakeDirEntry(DriveRoot("C:"), <<"a">>, t)

OldCache(age, entries) ==
    [NewDiskCache(Clock - age) EXCEPT
        !.entries = entries, !.root = DriveRoot("C:"),
        !.last_scanned_root = DriveRoot("C:")]

OldCaches ==
    { OldCache(age, NoEntries) : age \in Ages } \cup
    { OldCache(age, (DriveRoot("C:") :> OldRootEntry(Clock - age))) : age \in Ages }

\* What the cache file can hold when the program starts.
CacheFiles == {NoFile, Garbage} \cup { Whole(SerializeCache(c)) : c \in OldCaches }

NoLocals == [is_first_run |-> FALSE, scan_root |-> NoPath]

InitWorkers ==
    /\ work_queue = <<>>
    /\ in_progress = {}
    /\ shared = NoCache
    /\ pc = [w \in Workers |-> "unborn"]
    /\ dir_path = [w \in Workers |-> NoPath]
    /\ iter = [w \in Workers |-> {}]
    /\ children = [w \in Workers |-> <<>>]
    /\ visits = <<>>
    /\ claims = <<>>

InitRest ==
    /\ now = Clock
    /\ cache = NoCache
    /\ pcMain = "start"
    /\ ret = NoRet
    /\ save = IdleSave
    /\ locals = NoLocals
    /\ lazy = NoLazy
    /\ hist = NoHist
    /\ walk = NoWalk
    /\ guards = NoGuards
    /\ usn = NoUsn
    /\ cron = NoCron
    /\ entry = [cache |-> NoCache, files |-> files, opened |-> files[CachePath]]
    /\ InitWorkers

CacheDir(content) == [f \in FileNames |-> IF f = CachePath THEN content ELSE NoFile]

\* Runs that scan: a first run of drive C:, or a rescan of the working
\* directory over a cache that has gone stale.
InitScan ==
    /\ fs \in Trees
    /\ args = [drive |-> "C:", force |-> FALSE]
    /\ \/ /\ files = CacheDir(NoFile)
          /\ cwd = DriveRoot("C:")
       \/ /\ files = CacheDir(Whole(SerializeCache(
                  OldCache(FreshnessSecs,
                           (DriveRoot("C:") :> OldRootEntry(Clock - FreshnessSecs))))))
          /\ cwd \in Dirs(fs)

\* Runs that exercise the freshness policy: every argument and every cache
\* file, over the small trees.
InitPolicy ==
    /\ fs \in SmallTrees
    /\ args \in [drive : Drives, force : BOOLEAN]
    /\ cwd \in Dirs(fs)
    /\ files \in { CacheDir(c) : c \in CacheFiles }

Init == (InitScan \/ InitPolicy) /\ InitRest

Next ==
    \/ MainOpen
    \/ TraverseBegin
    \/ \E w \in Workers : dfs_worker(w)
    \/ TraverseJoin
    \/ MainSaveStep
    \/ TraverseReturn
    \/ Crash

Spec == Init /\ [][Next]_vars

\* ------------------------------------------------- dfs_worker on any queue
\* Longest work queue handed to the workers.
MaxQueue == 2

RECURSIVE SeqsUpTo(_, _)
SeqsUpTo(S, n) ==
    IF n = 0 THEN { <<>> }
    ELSE LET shorter == SeqsUpTo(S, n - 1)
         IN shorter \cup { Append(q, x) : q \in shorter, x \in S }

\* dfs_worker takes the queue it is given: here the workers start on a
\* queue that may name a directory more than once.
InitDup ==
    /\ fs \in SmallTrees
    /\ args = [drive |-> "C:", force |-> FALSE]
    /\ cwd = DriveRoot("C:")
    /\ now = Clock
    /\ files = CacheDir(NoFile)
    /\ cache = NewDiskCache(Clock)
    /\ pcMain = "scope"
    /\ ret = NoRet
    /\ save = IdleSave
    /\ locals = [is_first_run |-> TRUE, scan_root |-> DriveRoot("C:")]
    /\ lazy = NoLazy
    /\ hist = NoHist
    /\ walk = NoWalk
    /\ guards = NoGuards
    /\ usn = NoUsn
    /\ cron = NoCron
    /\ entry = [cache |-> cache, files |-> files, opened |-> NoFile]
    /\ work_queue \in SeqsUpTo(Dirs(fs), MaxQueue) \ { <<>> }
    /\ in_progress = {}
    /\ shared = cache
    /\ pc = [w \in Workers |-> "pop"]
    /\ dir_path = [w \in Workers |-> NoPath]
    /\ iter = [w \in Workers |-> {}]
    /\ children = [w \in Workers |-> <<>>]
    /\ visits = <<>>
    /\ claims = <<>>

NextDup == \E w \in Workers : dfs_worker(w)

SpecDup == InitDup /\ [][NextDup]_vars

\* --------------------------------------------------- the caches over runs
\* What the index file and the data file can hold when a LazyCache is opened.
OldIndex == [NewIndex(Clock - FreshnessSecs) EXCEPT
                !.offsets = (DriveRoot("C:") :> 0), !.root = DriveRoot("C:"),
                !.last_scanned_root = DriveRoot("C:")]

\* The entries earlier runs have stored.
DirEntryOf(path, kids, hash) ==
    [path |-> path, name |-> FileName(path), modified |-> Clock - FreshnessSecs,
     content_hash |-> hash, children |-> kids, symlink_target |-> TargetTable[1],
     is_hidden |-> FALSE, is_dir |-> TRUE]
StoredRoot == DirEntryOf(DriveRoot("C:"), <<"a">>, 7)
StoredA == DirEntryOf(Join(DriveRoot("C:"), "a"), <<>>, 0)
Record(dir_entry) == append_entry(<<>>, dir_entry).cells

IndexFiles == {NoFile, EmptyFile, Garbage, Whole(SerializeIndex(OldIndex))}
DataFiles == {NoFile, EmptyFile, LogFile(Record(StoredRoot))}

\* A process that is about to open a LazyCache over an index file and a
\* data file.
InitLazyOn(index_file, data_file) ==
    /\ fs = (DriveRoot("C:") :> "dir")
    /\ args = [drive |-> "C:", force |-> FALSE]
    /\ cwd = DriveRoot("C:")
    /\ files = [f \in FileNames |->
                   IF f = with_extension(LazyPath, "idx") THEN index_file
                   ELSE IF f = with_extension(LazyPath, "dat") THEN data_file
                   ELSE NoFile]
    /\ now = Clock
    /\ cache = NoCache
    /\ pcMain = "lz_start"
    /\ ret = NoRet
    /\ save = IdleSave
    /\ locals = NoLocals
    /\ lazy = NoLazy
    /\ hist = NoHist
    /\ walk = NoWalk
    /\ guards = NoGuards
    /\ usn = NoUsn
    /\ cron = NoCron
    /\ entry = [cache |-> NoCache, files |-> files,
                opened |-> files[with_extension(LazyPath, "idx")]]
    /\ InitWorkers

InitLazy == \E i \in IndexFiles, d \in DataFiles : InitLazyOn(i, d)

\* The program is run again, after it has ended or died: what it held in
\* memory is gone, the files stay.
Restarted ==
    /\ pcMain' = IF pcMain \in {"exit", "crashed"} THEN "start" ELSE "lz_start"
    /\ cache' = NoCache
    /\ ret' = NoRet
    /\ save' = IdleSave
    /\ locals' = NoLocals
    /\ lazy' = NoLazy
    /\ entry' = [cache |-> NoCache, files |-> files, opened |-> NoFile]
    /\ work_queue' = <<>>
    /\ in_progress' = {}
    /\ shared' = NoCache
    /\ pc' = [w \in Workers |-> "unborn"]
    /\ dir_path' = [w \in Workers |-> NoPath]
    /\ iter' = [w \in Workers |-> {}]
    /\ children' = [w \in Workers |-> <<>>]
    /\ visits' = <<>>
    /\ claims' = <<>>
    /\ hist' = [NoHist EXCEPT !.appended = hist.appended, !.calls = hist.calls]
    /\ UNCHANGED <<envVars, sysVars, walk, guards, files>>

Restart ==
    /\ pcMain \in {"exit", "crashed", "lz_exit", "lz_crashed", "lz_panic"}
    /\ Restarted

\* The client drops its LazyCache and opens the store again.
LazyReopen ==
    /\ pcMain = "lz_open"
    /\ Restarted

\* The client of a LazyCache stops.
LazyClose ==
    /\ pcMain = "lz_open"
    /\ pcMain' = "lz_exit"
    /\ UNCHANGED <<envVars, sysVars, walk, guards, hist, lazy, files, cache, ret, locals, entry, workerVars, save>>

InitCache == (InitPolicy /\ InitRest) \/ InitLazy

NextCache ==
    \/ Next
    \/ Restart
    \/ LazyOpen
    \/ LazyUpdateIndex
    \/ LazySaveIndexBegin
    \/ LazySaveStep
    \/ LazySaveIndexReturn
    \/ LazyClose

SpecCache == InitCache /\ [][NextCache]_vars

\* ------------------------------------------------ the clients of LazyCache
\* get_entry(path) of a client that has then asked for `asked` paths.
GetEntry(path, asked) ==
    /\ pcMain = "lz_open"
    /\ LET got == get_entry(lazy, path)
       IN /\ lazy' = got.lz
          /\ ret' = got.ret
          /\ pcMain' = IF got.ret = Panic THEN "lz_panic" ELSE "lz_open"
          /\ hist' = [hist EXCEPT
                        !.op = "get_entry", !.path = path, !.args = <<>>,
                        !.self = lazy, !.asked = asked,
                        !.recency =
                            IF got.ret.kind = "ok" /\ got.ret.some
                            THEN LET Other(q) == q # path
                                 IN <<path>> \o SelectSeq(@, Other)
                            ELSE @]
    /\ UNCHANGED <<envVars, sysVars, walk, guards, files, cache, locals, entry, workerVars, save>>

\* The paths a client of a small store asks for.
SmallPaths == { PathTable[i] : i \in 1..3 }

LazyGetEntry == \E path \in SmallPaths : GetEntry(path, hist.asked)

\* The orders a HashMap can yield its keys in.
Orders(S) ==
    { q \in [1..Cardinality(S) -> S] : \A i, j \in DOMAIN q : i # j => q[i] # q[j] }

LazyGetAll ==
    /\ pcMain = "lz_open"
    /\ \E keys \in Orders(DOMAIN lazy.index.offsets) :
          LET got == get_all(lazy, keys)
          IN /\ lazy' = got.lz
             /\ ret' = got.ret
             /\ pcMain' = IF got.ret = Panic THEN "lz_panic" ELSE "lz_open"
             /\ hist' = [hist EXCEPT !.op = "get_all", !.path = NoPath,
                                     !.args = keys, !.self = lazy]
    /\ UNCHANGED <<envVars, sysVars, walk, guards, files, cache, locals, entry, workerVars, save>>

\* The entries a traversal appends.
AppendChoices ==
    { [DirEntryOf(Join(DriveRoot("C:"), "a"), <<"a", "b">>, 12345) EXCEPT
          !.modified = Clock, !.symlink_target = TargetTable[2], !.is_hidden = TRUE],
      [DirEntryOf(DriveRoot("C:"), <<"a">>, 8) EXCEPT !.modified = Clock] }

\* cache_lazy.rs:174-201.  The open can fail; either write_all can fail with
\* a part of its bytes in the file; sync_all can fail with all of them there.
LazyAppendEntry ==
    /\ pcMain = "lz_open"
    /\ hist.calls < MaxAppends
    /\ \E dir_entry \in AppendChoices :
          LET before == Cells(files[lazy.data_path])
              app == append_entry(before, dir_entry)
              called == [hist EXCEPT !.op = "append_entry", !.path = dir_entry.path,
                                     !.args = [dir_entry |-> dir_entry, before |-> before],
                                     !.self = lazy, !.calls = @ + 1]
          IN \/ /\ files' = [files EXCEPT ![lazy.data_path] = LogFile(app.cells)]
                /\ ret' = [kind |-> "ok", offset |-> app.offset]
                /\ hist' = [called EXCEPT
                              !.appended = Append(@, [offset |-> app.offset,
                                                      dir_entry |-> dir_entry])]
             \/ /\ \E written \in {0, 4, 7, Len(app.cells) - Len(before)} :
                      files' = [files EXCEPT ![lazy.data_path] =
                                   IF written = 0 /\ before = <<>> THEN @
                                   ELSE LogFile(SubSeq(app.cells, 1, Len(before) + written))]
                /\ ret' = Err("io")
                /\ hist' = called
    /\ UNCHANGED <<envVars, sysVars, walk, guards, lazy, cache, pcMain, locals, entry, workerVars, save>>

\* The offsets append_entry has returned, each under its entry's path, the
\* latest for a path over the earlier ones and over what the index held.
Registered(offsets, appended) ==
    LET paths == { appended[i].dir_entry.path : i \in DOMAIN appended }
        latest(p) == CHOOSE i \in DOMAIN appended :
                        /\ appended[i].dir_entry.path = p
                        /\ \A j \in DOMAIN appended :
                              appended[j].dir_entry.path = p => j <= i
    IN [p \in DOMAIN offsets \cup paths |->
           IF p \in paths THEN appended[latest(p)].offset ELSE offsets[p]]

\* update_index called with the offsets of the traversal's appends.
LazyRegister ==
    /\ pcMain = "lz_open"
    /\ hist.appended # <<>>
    /\ LET offsets == Registered(lazy.index.offsets, hist.appended)
           root == DriveRoot("C:")
           last_scanned_root == Join(DriveRoot("C:"), "a")
       IN /\ lazy' = update_index(lazy, offsets, now, root, last_scanned_root)
          /\ UpdateIndexCalled(offsets, now, root, last_scanned_root)
    /\ ret' = NoRet
    /\ UNCHANGED <<envVars, sysVars, walk, guards, files, cache, pcMain, locals, entry, workerVars, save>>

\* The stores a client finds: none; an index with its log; the index
\* without the log; a log whose first record does not decode; a log whose
\* last record is cut short; an empty log.
StoreIndex(offsets) ==
    [OldIndex EXCEPT !.offsets = offsets, !.skip_stats = ("System32" :> 1),
                     !.usn_state = 7]
TwoOffsets(second) ==
    (DriveRoot("C:") :> 0) @@ (Join(DriveRoot("C:"), "a") :> second)
Stores ==
    LET idx(second) == Whole(SerializeIndex(StoreIndex(TwoOffsets(second))))
    IN { [idx |-> NoFile, dat |-> NoFile],
         [idx |-> idx(12), dat |-> LogFile(Record(StoredRoot) \o Record(StoredA))],
         [idx |-> idx(12), dat |-> NoFile],
         [idx |-> idx(5), dat |-> LogFile(to_le_bytes(1) \o <<9>> \o Record(StoredA))],
         [idx |-> idx(12),
          dat |-> LogFile(Record(StoredRoot) \o to_le_bytes(8) \o <<2, 2, 1>>)],
         [idx |-> idx(12), dat |-> EmptyFile] }

InitStore == \E store \in Stores : InitLazyOn(store.idx, store.dat)

\* A client that reads a store and replaces its index.
NextLazy ==
    \/ LazyOpen
    \/ LazyGetEntry
    \/ LazyGetAll
    \/ LazyUpdateIndex
    \/ LazyReopen
    \/ Restart

SpecLazy == InitStore /\ [][NextLazy]_vars

\* A client that appends to the log of a store, registers the offsets,
\* opens the store again and reads.
InitLog ==
    \/ InitLazyOn(NoFile, NoFile)
    \/ InitLazyOn(Whole(SerializeIndex(StoreIndex(TwoOffsets(12)))),
                  LogFile(Record(StoredRoot) \o Record(StoredA)))

NextLog ==
    \/ LazyOpen
    \/ LazyGetEntry
    \/ LazyAppendEntry
    \/ LazyRegister
    \/ LazyReopen
    \/ Restart

SpecLog == InitLog /\ [][NextLog]_vars

\* ------------------------------------------------- a full entry cache
\* How many of the first paths a client asks for again.
MaxHot == 2

LruPath(i) == PathTable[3 + i]
LruEntry(i) == DirEntryOf(LruPath(i), <<>>, i)
LruRecords == [i \in 1..LruCount |-> Record(LruEntry(i))]
LruCells ==
    [k \in 1..(12 * LruCount) |-> LruRecords[((k - 1) \div 12) + 1][((k - 1) % 12) + 1]]
LruOffsets ==
    [p \in { LruPath(i) : i \in 1..LruCount } |-> 12 * (Code(PathTable, p) - 4)]

InitLru ==
    InitLazyOn(Whole(SerializeIndex(StoreIndex(LruOffsets))), LogFile(LruCells))

\* A client that asks for the indexed paths one after the other, and, once
\* the entry cache is about full, now and then for one of the first again.
LruGetEntry ==
    \/ /\ hist.asked < LruCount
       /\ GetEntry(LruPath(hist.asked + 1), hist.asked + 1)
    \/ /\ hist.asked >= EntryCacheSize - 1
       /\ \E h \in 1..MaxHot : GetEntry(LruPath(h), hist.asked)

NextLru == LazyOpen \/ LruGetEntry \/ LazyReopen

SpecLru == InitLru /\ [][NextLru]_vars

\* ------------------------------------------- the output of any cache file
\* The cache files an output function can meet: the cache file is the
\* program's input, so the children of an entry can be any names, in any
\* order: "." names the entry's own directory and "\\" the root of its drive.
RECURSIVE Chain(_)
Chain(n) == IF n = 0 THEN DriveRoot("C:") ELSE Join(Chain(n - 1), "a")
TreePaths == { Chain(n) : n \in 0..MaxDepth }
ChildLists ==
    { <<>>, <<"a">>, <<"a", ".">>, <<"a", "\\">>, <<"a", "\\", ".">> }
TreeEntries ==
    UNION { { [p \in K |-> [path |-> p, name |-> FileName(p), modified |-> Clock,
                            size |-> 0, children |-> kids[p]]] :
                kids \in [K -> ChildLists] } : K \in SUBSET TreePaths }
TreeCaches ==
    { [NewDiskCache(Clock) EXCEPT !.entries = e, !.root = r,
                                  !.last_scanned_root = r] :
        e \in TreeEntries, r \in { Chain(0), Chain(1) } }

\* main has opened the cache and traverse_disk has returned.
InitTree ==
    /\ fs = (DriveRoot("C:") :> "dir")
    /\ args = [drive |-> "C:", force |-> FALSE]
    /\ cwd = DriveRoot("C:")
    /\ now = Clock
    /\ cache \in TreeCaches
    /\ files = CacheDir(Whole(SerializeCache(cache)))
    /\ pcMain = "print"
    /\ ret = NoRet
    /\ save = IdleSave
    /\ locals = NoLocals
    /\ lazy = NoLazy
    /\ hist = NoHist
    /\ walk = NoWalk
    /\ guards = NoGuards
    /\ usn = NoUsn
    /\ cron = NoCron
    /\ entry = [cache |-> cache, files |-> files, opened |-> files[CachePath]]
    /\ InitWorkers

NextTree == Build \/ WalkChild \/ WalkReturn \/ BuildReturn

SpecTree == InitTree /\ [][NextTree]_vars

\* The output function runs on main's thread, which goes on until it returns.
FairTree == SpecTree /\ WF_vars(NextTree)

\* ------------------------------------------------ the callers of remove_entry
\* The caches remove_entry is called on: entries of the root, of a, ab and b
\* below it, and of b below a.
RemovePaths ==
    { DriveRoot("C:"), Join(DriveRoot("C:"), "a"), Join(DriveRoot("C:"), "ab"),
      Join(DriveRoot("C:"), "b"), Join(Join(DriveRoot("C:"), "a"), "b") }
RemoveCaches ==
    { [NewDiskCache(Clock) EXCEPT
          !.entries = [p \in K |-> MakeDirEntry(p, <<>>, Clock)],
          !.root = DriveRoot("C:"), !.last_scanned_root = DriveRoot("C:")] :
        K \in SUBSET RemovePaths }

InitRemove ==
    /\ fs = (DriveRoot("C:") :> "dir")
    /\ args = [drive |-> "C:", force |-> FALSE]
    /\ cwd = DriveRoot("C:")
    /\ now = Clock
    /\ cache \in RemoveCaches
    /\ files = CacheDir(NoFile)
    /\ pcMain = "remove"
    /\ ret = NoRet
    /\ save = IdleSave
    /\ locals = NoLocals
    /\ lazy = NoLazy
    /\ hist = NoHist
    /\ walk = NoWalk
    /\ guards = NoGuards
    /\ usn = NoUsn
    /\ cron = NoCron
    /\ entry = [cache |-> cache, files |-> files, opened |-> NoFile,
                path |-> NoPath]
    /\ InitWorkers

NextRemove == RemoveEntry

SpecRemove == InitRemove /\ [][NextRemove]_vars

\* ------------------------------------------------- a directory over the
\* sort threshold
\* The orders of enumeration tried for each directory.
MaxRotation == 3

\* The names of a directory of `count` entries: the directory a, and files.
BigNames(count) == {"a"} \cup { BigName(i) : i \in 1..(count - 1) }
BigFs(count) ==
    LET root == DriveRoot("C:")
        below == { Join(root, n) : n \in BigNames(count) }
                   \cup { Join(Join(root, "a"), "b") }
    IN [p \in {root} \cup below |->
           IF p \in {root, Join(root, "a")} THEN "dir" ELSE "file"]

\* Orders read_dir can yield the names in: the ascending and the descending
\* order, each begun at some later place.
Ascending(count) ==
    Vec([i \in 1..count |-> IF i = 1 THEN "a" ELSE BigName(i - 1)], count)
Reversed(q) == Vec([i \in 1..Len(q) |-> q[Len(q) + 1 - i]], Len(q))
Rotated(q, r) == SubSeq(q, r + 1, Len(q)) \o SubSeq(q, 1, r)
EnumOrders(count) ==
    { Rotated(q, r) : q \in { Ascending(count), Reversed(Ascending(count)) },
                      r \in 0..MaxRotation }

\* A first run in which a worker has gone through the entries of the root,
\* a directory of as many entries as the threshold or one more, and is about
\* to sort them; the directory a is on the queue.
InitSort ==
    /\ \E count \in {ParSortThreshold, ParSortThreshold + 1} :
          /\ fs = BigFs(count)
          /\ children \in { [w \in Workers |-> IF w = 1 THEN q ELSE <<>>] :
                              q \in EnumOrders(count) }
    /\ args = [drive |-> "C:", force |-> FALSE]
    /\ cwd = DriveRoot("C:")
    /\ now = Clock
    /\ files = CacheDir(NoFile)
    /\ cache = [NewDiskCache(Clock) EXCEPT !.root = DriveRoot("C:"),
                                          !.last_scanned_root = DriveRoot("C:")]
    /\ pcMain = "scope"
    /\ ret = NoRet
    /\ save = IdleSave
    /\ locals = [is_first_run |-> TRUE, scan_root |-> DriveRoot("C:")]
    /\ lazy = NoLazy
    /\ hist = NoHist
    /\ walk = NoWalk
    /\ guards = NoGuards
    /\ usn = NoUsn
    /\ cron = NoCron
    /\ entry = [cache |-> NewDiskCache(Clock), files |-> files, opened |-> NoFile]
    /\ work_queue = <<Join(DriveRoot("C:"), "a")>>
    /\ in_progress = {DriveRoot("C:")}
    /\ shared = cache
    /\ pc = [w \in Workers |-> IF w = 1 THEN "entries" ELSE "pop"]
    /\ dir_path = [w \in Workers |-> IF w = 1 THEN DriveRoot("C:") ELSE NoPath]
    /\ iter = [w \in Workers |-> {}]
    /\ visits = (DriveRoot("C:") :> 1)
    /\ claims = (DriveRoot("C:") :> 1)

NextSort == \E w \in Workers : dfs_worker(w)

SpecSort == InitSort /\ [][NextSort]_vars

\* ------------------------------------------------- the run and its clock
\* Seconds the clock can advance in a run.
MaxTicks == 2

\* Utc::now() reads a clock that moves on between any two statements and
\* does not go back.
Tick ==
    /\ now < Clock + MaxTicks
    /\ now' = now + 1
    /\ UNCHANGED <<fs, args, cwd, sysVars, walk, guards, hist, lazy, files, mainVars,
                   workerVars, save>>

InitClock == InitPolicy /\ InitRest

NextClock == Next \/ Tick

SpecClock == InitClock /\ [][NextClock]_vars

\* ------------------------------------------------- the USN journal tracker
\* Calls of get_changed_directories on one tracker.
MaxUsnCalls == 3
\* Largest next_usn the journal reports.
MaxUsn == 2

\* Everything but the tracker and the crontab: the program is not running.
ptreeVars == <<envVars, walk, guards, hist, lazy, files, mainVars, workerVars,
               save>>
NotRunning ==
    /\ fs = (DriveRoot("C:") :> "dir")
    /\ args = [drive |-> "C:", force |-> FALSE]
    /\ cwd = DriveRoot("C:")
    /\ now = Clock
    /\ files = CacheDir(NoFile)
    /\ cache = NoCache
    /\ pcMain = "none"
    /\ ret = NoRet
    /\ save = IdleSave
    /\ locals = NoLocals
    /\ lazy = NoLazy
    /\ hist = NoHist
    /\ walk = NoWalk
    /\ guards = NoGuards
    /\ entry = [cache |-> NoCache, files |-> files, opened |-> NoFile]
    /\ InitWorkers

\* The roots a tracker is made on: a drive root, a directory, the empty
\* path of PathBuf::new().
UsnRoots ==
    { DriveRoot(d) : d \in Drives } \cup { Join(DriveRoot("C:"), "a"), NoPath }

\* usn_journal.rs:34-40  USNTracker::new
USNTrackerNew(root) ==
    [pc |-> "idle", root |-> root, last_usn |-> 0, changed_dirs |-> {},
     handle |-> 0, open |-> {}, ret |-> NoRet, calls |-> 0, failed |-> "none"]

\* usn_journal.rs:47  format!("\\\\.\\{}\\", &root_str[..2])
volume(root_str) == <<"\\", "\\", ".", "\\">> \o SubSeq(root_str, 1, 2) \o <<"\\">>

\* A handle the process does not hold yet.
NewHandle(open) == CHOOSE h \in 1..(Cardinality(open) + 1) : h \notin open

\* usn_journal.rs:44-50, 64-87: the volume name is cut from the root's text,
\* which panics on a text of less than two bytes; CreateFileW gives
\* INVALID_HANDLE_VALUE, which open_volume returns as an error, or a handle.
GetChangedDirectories ==
    /\ usn.pc = "idle"
    /\ usn.calls < MaxUsnCalls
    /\ \/ /\ Len(to_string_lossy(usn.root)) < 2
          /\ usn' = [usn EXCEPT !.pc = "panicked", !.calls = @ + 1,
                                !.ret = [kind |-> "panic"], !.failed = "slice"]
       \/ /\ Len(to_string_lossy(usn.root)) >= 2
          /\ Len(volume(to_string_lossy(usn.root))) = 7
          /\ \/ usn' = [usn EXCEPT !.calls = @ + 1, !.failed = "open",
                           !.ret = Err("Failed to open volume handle")]
             \/ LET handle == NewHandle(usn.open)
                IN usn' = [usn EXCEPT !.pc = "query", !.calls = @ + 1,
                              !.handle = handle, !.open = @ \cup {handle},
                              !.ret = NoRet, !.failed = "none"]
    /\ UNCHANGED <<ptreeVars, cron>>

\* usn_journal.rs:53, 90-129: DeviceIoControl fills the journal data and
\* last_usn becomes its next_usn, or it gives FALSE and the error leaves
\* get_changed_directories through the `?`.
QueryUsnJournal ==
    /\ usn.pc = "query"
    /\ \/ \E next_usn \in 0..MaxUsn :
             usn' = [usn EXCEPT !.pc = "close", !.last_usn = next_usn]
       \/ usn' = [usn EXCEPT !.pc = "idle", !.failed = "query",
                     !.ret = Err("Failed to query USN journal")]
    /\ UNCHANGED <<ptreeVars, cron>>

\* usn_journal.rs:56-60: CloseHandle(handle) and Ok(changed_dirs).
CloseHandle ==
    /\ usn.pc = "close"
    /\ usn' = [usn EXCEPT !.pc = "idle", !.open = @ \ {usn.handle},
                  !.ret = [kind |-> "ok", changed_dirs |-> {}]]
    /\ UNCHANGED <<ptreeVars, cron>>

InitUsn ==
    /\ NotRunning
    /\ cron = NoCron
    /\ \E root \in UsnRoots : usn = USNTrackerNew(root)

NextUsn == GetChangedDirectories \/ QueryUsnJournal \/ CloseHandle

SpecUsn == InitUsn /\ [][NextUsn]_vars

\* ------------------------------------------------- the scheduler on crontab
\* Lines of the crontab the user has when the first task runs.
MaxCronLines == 2
\* Scheduler tasks run one after the other.
MaxCronCalls == 3

\* Text is a sequence of pieces of text; a piece is never cut, and "ptree",
\* "--force" and the line feed are pieces of their own wherever they occur.
\* lib.rs:23-27  EXE_PATH_STR: the path of the running executable.
ExePaths == { <<"/usr/bin/", "ptree">>, <<"/opt/bin/", "pt">> }

\* install_task.rs:80  format!("*/30 * * * * {} --force --quiet\n", ..)
InstallEntry(exe) == <<"*/30 * * * * ">> \o exe \o <<" ", "--force", " --quiet", "\n">>

\* uninstall_task.rs:63  format!("*/30 * * * * {} --force --quiet", ..)
UninstallEntry(exe) == <<"*/30 * * * * ">> \o exe \o <<" ", "--force", " --quiet">>

\* str::contains
contains_str(text, pattern) ==
    \E i \in 1..(Len(text) + 1) :
        /\ i + Len(pattern) - 1 <= Len(text)
        /\ SubSeq(text, i, i + Len(pattern) - 1) = pattern

\* str::lines: the text between the line feeds, the text after the last
\* line feed if there is any.
RECURSIVE lines(_)
lines(text) ==
    IF text = <<>> THEN <<>>
    ELSE IF \E i \in DOMAIN text : text[i] = "\n"
         THEN LET nl == CHOOSE i \in DOMAIN text :
                           text[i] = "\n" /\ \A j \in 1..(i - 1) : text[j] # "\n"
              IN <<SubSeq(text, 1, nl - 1)>> \o lines(SubSeq(text, nl + 1, Len(text)))
         ELSE <<text>>

\* [&str]::join
RECURSIVE join_str(_, _)
join_str(strs, sep) ==
    IF strs = <<>> THEN <<>>
    ELSE IF Len(strs) = 1 THEN strs[1]
    ELSE strs[1] \o sep \o join_str(Tail(strs), sep)

\* uninstall_task.rs:73  |line| !line.contains("ptree") || !line.contains("--force")
kept(line, exe) ==
    ~contains_str(line, <<"ptree">>) \/ ~contains_str(line, <<"--force">>)

\* The crontab of the user: none, or its text.
NoCrontab == [exists |-> FALSE, text |-> <<>>]
Crontab(text) == [exists |-> TRUE, text |-> text]

\* install_task.rs:44-123.  `which crontab` fails: an error.  `crontab -l`
\* gives the text, or fails when the user has no crontab, which counts as
\* the empty text.  The text that holds the entry is left; else the entry is
\* pushed to its end and given to `crontab -`, which installs it or fails.
InstallScheduler ==
    /\ cron.pc = "idle"
    /\ cron.calls < MaxCronCalls
    /\ LET crontab_content == IF cron.crontab.exists THEN cron.crontab.text ELSE <<>>
           cron_entry == InstallEntry(cron.exe)
           called == [cron EXCEPT !.calls = @ + 1, !.op = "install",
                                  !.before = cron.crontab, !.written = FALSE]
       IN \/ cron' = [called EXCEPT !.ret = Err("which")]
          \/ /\ contains_str(crontab_content, cron_entry)
             /\ cron' = [called EXCEPT !.ret = [kind |-> "ok"]]
          \/ /\ ~contains_str(crontab_content, cron_entry)
             /\ \/ cron' = [called EXCEPT !.ret = Err("crontab")]
                \/ cron' = [called EXCEPT
                               !.crontab = Crontab(crontab_content \o cron_entry),
                               !.written = TRUE, !.ret = [kind |-> "ok"]]
    /\ UNCHANGED <<ptreeVars, usn>>

\* uninstall_task.rs:43-110.  No crontab, or a text that does not hold the
\* entry: Ok and nothing written.  Else the lines that pass the filter are
\* joined with line feeds and given to `crontab -`.
UninstallScheduler ==
    /\ cron.pc = "idle"
    /\ cron.calls < MaxCronCalls
    /\ LET crontab_content == cron.crontab.text
           cron_entry == UninstallEntry(cron.exe)
           new_crontab ==
               join_str(SelectSeq(lines(crontab_content),
                                  LAMBDA line : kept(line, cron.exe)), <<"\n">>)
           called == [cron EXCEPT !.calls = @ + 1, !.op = "uninstall",
                                  !.before = cron.crontab, !.written = FALSE]
       IN \/ /\ ~cron.crontab.exists
             /\ cron' = [called EXCEPT !.ret = [kind |-> "ok"]]
          \/ /\ cron.crontab.exists
             /\ ~contains_str(crontab_content, cron_entry)
             /\ cron' = [called EXCEPT !.ret = [kind |-> "ok"]]
          \/ /\ cron.crontab.exists
             /\ contains_str(crontab_content, cron_entry)
             /\ \/ cron' = [called EXCEPT !.ret = Err("crontab")]
                \/ cron' = [called EXCEPT !.crontab = Crontab(new_crontab),
                               !.written = TRUE, !.ret = [kind |-> "ok"]]
    /\ UNCHANGED <<ptreeVars, usn>>

\* The lines a user's crontab can hold: a setting, a job of the user's own
\* on a directory named ptree, the entry commented out.
UserLines(exe) ==
    { <<"MAILTO=me">>,
      <<"@daily rsync ", "--force", " /srv/", "ptree">>,
      <<"#">> \o UninstallEntry(exe) }

\* `crontab -e` keeps a line feed at the end of every line.
UserCrontabs(exe) ==
    { Crontab(join_str([i \in DOMAIN ls |-> ls[i] \o <<"\n">>], <<>>)) :
        ls \in SeqsUpTo(UserLines(exe), MaxCronLines) }

InitCron ==
    /\ NotRunning
    /\ usn = NoUsn
    /\ \E exe \in ExePaths :
       \E crontab \in UserCrontabs(exe) \cup {NoCrontab} :
          cron = [pc |-> "idle", exe |-> exe, crontab |-> crontab,
                  before |-> crontab, op |-> "none", written |-> FALSE,
                  ret |-> NoRet, calls |-> 0]

NextCron == InstallScheduler \/ UninstallScheduler

SpecCron == InitCron /\ [][NextCron]_vars

\* ------------------------------------------------- the save of any cache
\* Longest write buffer of the cache handed to save.
MaxWrites == 2

SavePaths == { DriveRoot("C:"), Join(DriveRoot("C:"), "a") }
\* The entries an earlier run left, and the entries a worker can write.
SavedEntries ==
    { [p \in K |-> MakeDirEntry(p, <<"b">>, Clock - FreshnessSecs)] :
        K \in SUBSET SavePaths }
BufferedWrites ==
    { <<p, MakeDirEntry(p, kids, Clock)>> :
        p \in SavePaths, kids \in { <<>>, <<"a">> } }

\* The workers have returned and left a shared cache with any entries and
\* any write buffer, a path more than once in it or not at all; the scope
\* ends and traverse_disk saves it.
InitSave ==
    /\ fs = (DriveRoot("C:") :> "dir")
    /\ args = [drive |-> "C:", force |-> TRUE]
    /\ cwd = DriveRoot("C:")
    /\ now = Clock
    /\ files = CacheDir(NoFile)
    /\ pcMain = "scope"
    /\ ret = NoRet
    /\ save = IdleSave
    /\ lazy = NoLazy
    /\ hist = NoHist
    /\ walk = NoWalk
    /\ guards = NoGuards
    /\ usn = NoUsn
    /\ cron = NoCron
    /\ \E e \in SavedEntries, writes \in SeqsUpTo(BufferedWrites, MaxWrites),
          scanned \in SavePaths :
          shared = [NewDiskCache(Clock - FreshnessSecs) EXCEPT
                       !.entries = e, !.pending_writes = writes,
                       !.root = DriveRoot("C:"), !.last_scanned_root = scanned]
    /\ cache = [shared EXCEPT !.pending_writes = <<>>]
    /\ locals = [is_first_run |-> DOMAIN cache.entries = {},
                 scan_root |-> shared.root]
    /\ entry = [cache |-> cache, files |-> files, opened |-> NoFile]
    /\ work_queue = <<>>
    /\ in_progress = {}
    /\ pc = [w \in Workers |-> "done"]
    /\ dir_path = [w \in Workers |-> NoPath]
    /\ iter = [w \in Workers |-> {}]
    /\ children = [w \in Workers |-> <<>>]
    /\ visits = <<>>
    /\ claims = <<>>

\* cache.rs:51-90: the file that save has written is opened again.
ReopenSaved ==
    /\ pcMain = "exit"
    /\ save.step = "ok"
    /\ DiskCacheOpen(CachePath)
    /\ UNCHANGED <<envVars, sysVars, walk, guards, hist, lazy, workerVars, save, locals>>

NextSave == TraverseJoin \/ MainSaveStep \/ TraverseReturn \/ ReopenSaved

SpecSave == InitSave /\ [][NextSave]_vars

\* ------------------------------------------- the workers and their locks
\* The workers of InitDup on a queue that names the drive root once or more
\* often, every lock and every drop a step of its own.
InitLocks ==
    /\ InitDup
    /\ \A i \in DOMAIN work_queue : work_queue[i] = DriveRoot("C:")

NextLocks == \E w \in Workers : locking_worker(w)

SpecLocks == InitLocks /\ [][NextLocks]_vars

\* Every worker is a thread of the pool: none is held back for ever while
\* it can take a step.
FairLocks == SpecLocks /\ \A w \in Workers : WF_vars(locking_worker(w))

\* Workers are threads of a pool of their own; the operating system lets
\* every one of them take its next step, and the scope's end is reached once
\* they have all returned.
FairSpec ==
    /\ Spec
    /\ \A w \in Workers : WF_vars(dfs_worker(w))
    /\ WF_vars(TraverseJoin)

\* =================================================================== claims
\* What the claims speak of, stated apart from the operators of the program.

\* The one name of the model that a skip rule matches when case is ignored.
RuleMatches(name) == name = ".GIT"

\* The directories a scan from `path` is to reach: through readable
\* directories, to entries that are directories, are no links and match no
\* skip rule.
RECURSIVE ReachFrom(_, _)
ReachFrom(fsys, path) ==
    {path} \cup
    UNION { ReachFrom(fsys, Join(path, n)) :
            n \in { m \in Names :
                      /\ fsys[path] = "dir"
                      /\ Join(path, m) \in DOMAIN fsys
                      /\ fsys[Join(path, m)] \in {"dir", "denied"}
                      /\ ~RuleMatches(m) } }

WorkersSpawned == \A w \in Workers : pc[w] # "unborn"
WorkersDone == \A w \in Workers : pc[w] = "done"
Holds(w) == pc[w] \in {"read_dir", "entries", "release"}

\* traverse_disk was called and has returned (or the process died in its save).
Called == pcMain \in {"exit", "crashed"} /\ ~(ret.kind = "err" /\ ret.what \in {"io", "parse"})
AgeAtCall == now - entry.cache.last_scan
EmptyAtCall == DOMAIN entry.cache.entries = {}
Cached == ret.kind = "ok" /\ ret.cache_used

\* C1: once the workers are spawned, every worker leaves its loop and
\* traverse_disk gets past the scope, whatever the tree and the interleaving.
C1_Termination == (pcMain = "scope") ~> (pcMain = "save" /\ WorkersDone)

C1_Witness == pcMain = "save" /\ WorkersDone /\ Cardinality(DOMAIN visits) >= 3

\* C2: every directory the scan is to reach is claimed once and enumerated
\* once, nothing else is claimed or enumerated, and after the traversal the
\* cache has an entry for each of them that could be read.
C2_ExactlyOnce ==
    WorkersSpawned =>
      LET R == ReachFrom(fs, locals.scan_root) IN
      /\ \A p \in DOMAIN claims : p \in R /\ claims[p] = 1
      /\ \A p \in DOMAIN visits : p \in R /\ visits[p] = 1 /\ fs[p] = "dir"
      /\ WorkersDone =>
           \A p \in R : /\ Count(claims, p) = 1
                        /\ fs[p] = "dir" => Count(visits, p) = 1
      /\ pcMain \in {"save", "exit", "crashed"} =>
           \A p \in R : fs[p] = "dir" =>
               /\ p \in DOMAIN cache.entries
               /\ cache.entries[p].path = p

C2_Witness ==
    /\ pcMain = "exit" /\ ret.kind = "ok" /\ ~ret.cache_used
    /\ Cardinality(DOMAIN visits) >= 2
    /\ \E p \in DOMAIN fs : fs[p] = "dir" /\ p \notin DOMAIN visits

\* C3: a worker leaves its loop only when the queue is empty and no worker
\* holds a claim.
C3_ExitOnlyWhenIdle ==
    [][\A w \in Workers :
          (pc[w] = "pop" /\ pc'[w] = "done") =>
              (work_queue = <<>> /\ in_progress = {})]_vars

\* C6: a call with a non-empty cache, no force and a last scan younger than
\* the freshness window starts no worker, enumerates nothing, writes no file
\* and returns cache_used = true, threads_used = 0, with entries and last_scan
\* as they were.
FreshAtCall == ~args.force /\ ~EmptyAtCall /\ AgeAtCall < 3600

C6_ShortCircuit ==
    (pcMain \in {"opened", "scope", "save", "exit", "crashed"} /\ FreshAtCall) =>
      /\ pcMain \in {"opened", "exit"}
      /\ \A w \in Workers : pc[w] = "unborn"
      /\ visits = <<>>
      /\ files = entry.files
      /\ cache.entries = entry.cache.entries
      /\ cache.last_scan = entry.cache.last_scan
      /\ pcMain = "exit" => (ret.kind = "ok" /\ ret.cache_used /\ ret.threads_used = 0)

C6_Witness == pcMain = "exit" /\ FreshAtCall /\ AgeAtCall = 600 /\ Cached

\* C7 as claimed: a traversal runs whenever force is set, the cache is empty
\* or the last scan is as old as the freshness window, and the short-circuit
\* is taken in no other case.
ShouldRun == args.force \/ EmptyAtCall \/ AgeAtCall >= 3600

C7_RunsUnlessFresh ==
    Called => (ShouldRun => WorkersDone) /\ (Cached => ~ShouldRun)

\* C7 as amended: the same, except on a first run whose drive root does not
\* exist, where traverse_disk returns an error and no traversal runs.
DriveMissing == EmptyAtCall /\ <<args.drive>> \notin DOMAIN fs

C7_RunsUnlessFreshOrNoDrive ==
    Called =>
      /\ (ShouldRun /\ ~DriveMissing) => (WorkersDone /\ ~Cached)
      /\ (ShouldRun /\ DriveMissing) =>
            (ret.kind = "err" /\ ret.what = "drive" /\ ~WorkersSpawned)
      /\ Cached => ~ShouldRun
      /\ ~ShouldRun => Cached

C7_Witness ==
    /\ pcMain = "exit" /\ args.force /\ ~EmptyAtCall /\ AgeAtCall < 3600
    /\ WorkersDone /\ ret.kind = "ok"

\* C8: the scan starts at the drive root when the cache is empty and at the
\* working directory otherwise, and the queue starts with that one path.
ExpectedRoot == IF EmptyAtCall THEN <<args.drive>> ELSE cwd
JustSpawned == pcMain = "scope" /\ claims = <<>> /\ \A w \in Workers : pc[w] = "pop"

RECURSIVE Occurrences(_, _)
Occurrences(q, p) ==
    IF q = <<>> THEN 0
    ELSE (IF Head(q) = p THEN 1 ELSE 0) + Occurrences(Tail(q), p)

Written(p) == Occurrences([i \in DOMAIN shared.pending_writes |->
                              shared.pending_writes[i][1]], p)

\* C4: a path the queue names several times is enumerated and written once
\* in the whole traversal; every other pop of it does nothing.
C4_DuplicateIsNoOp ==
    \A p \in DOMAIN fs : Count(visits, p) <= 1 /\ Written(p) <= 1

\* C5: no two workers hold the claim on one path at the same time, and
\* in_progress is the set of the paths held.
C5_OneHolder ==
    /\ \A v, w \in Workers : (v # w /\ Holds(v) /\ Holds(w)) => dir_path[v] # dir_path[w]
    /\ in_progress = { dir_path[w] : w \in { v \in Workers : Holds(v) } }

\* A worker is about to try the claim another worker holds.
C5_Witness ==
    \E v, w \in Workers :
        /\ v # w /\ Holds(v)
        /\ pc[w] = "claim" /\ dir_path[w] = dir_path[v]

\* C9: from the moment a save begins, through every step, failure and crash,
\* the destination holds what it held when the save began, until the rename;
\* after the rename it holds the whole new serialisation.  A part of the new
\* bytes is never at the destination.
C9_AtomicSave ==
    save.step # "idle" =>
        IF save.step = "ok"
        THEN files[save.path] = save.data /\ save.data.len = 2
        ELSE files[save.path] = save.before

\* The process died with the temporary file written and the rename not done,
\* over a destination that held an earlier save.
C9_Witness ==
    /\ pcMain \in {"crashed", "lz_crashed"}
    /\ save.step = "rename"
    /\ files[save.temp_path] = save.data
    /\ save.before.len = 2
    /\ save.before # save.data

\* A content that is no serialisation of the kind asked for (an absent file
\* has none).
Unparsable(content, fmt) == ~(content.len = 2 /\ content.image.fmt = fmt)

\* open has returned a cache.
DiskOpened ==
    pcMain \in {"opened", "scope", "save", "exit", "crashed"} /\ ret # Err("io")
LazyOpened ==
    \/ pcMain \in {"lz_open", "lz_save", "lz_crashed"}
    \/ pcMain = "lz_exit" /\ ret # Err("io")

\* C10: open never returns an error for what the file holds.  From a file
\* that is absent or does not parse, DiskCache::open gives a cache with no
\* entries, no roots and nothing buffered, and the traversal that follows is
\* a first run: never served from the cache, and scanning the drive root.
\* LazyCache::open gives an index with no offsets and no roots.
C10_OpenNeverFailsOnContent ==
    /\ ~(ret.kind = "err" /\ ret.what = "parse")
    /\ (DiskOpened /\ Unparsable(entry.opened, "DiskCache")) =>
          /\ DOMAIN entry.cache.entries = {}
          /\ entry.cache.root = NoPath
          /\ entry.cache.last_scanned_root = NoPath
          /\ entry.cache.pending_writes = <<>>
          /\ ~Cached
          /\ WorkersSpawned =>
                locals.is_first_run /\ locals.scan_root = <<args.drive>>
    /\ (LazyOpened /\ Unparsable(entry.opened, "RkyvCacheIndex")) =>
          /\ entry.cache.offsets = <<>>
          /\ entry.cache.root = NoPath
          /\ entry.cache.last_scanned_root = NoPath

\* A cache file of bytes that do not parse was opened, and the workers of
\* the traversal that followed are running.
C10_Witness ==
    /\ pcMain = "scope"
    /\ entry.opened \in {Garbage, EmptyFile}
    /\ locals.is_first_run
    /\ claims # <<>>

\* ----------------------------------------------------- claims on LazyCache
\* The paths of the entry cache, front first.
WindowPaths(lz) == [i \in 1..Len(lz.entry_cache) |-> lz.entry_cache[i][1]]
InWindow(lz, path) == \E i \in 1..Len(lz.entry_cache) : lz.entry_cache[i][1] = path

\* The last call was get_entry, and it went to the mapping for its path.
WentToMapping ==
    /\ hist.op = "get_entry"
    /\ ~InWindow(hist.self, hist.path)
    /\ hist.path \in DOMAIN hist.self.index.offsets
    /\ hist.self.mmap.some

\* A record, prefix and payload, lies inside the cells from `offset` on.
Inside(cells, offset) ==
    /\ offset + 4 <= Len(cells)
    /\ offset + 4 + from_le_bytes(SubSeq(cells, offset + 1, offset + 4)) <= Len(cells)

C12_BoundsChecked ==
    WentToMapping =>
        /\ ret # Panic
        /\ ~Inside(Cells(hist.self.mmap.bytes), hist.self.index.offsets[hist.path])
              => ret = None

\* C13: get_entry gives what it would give with the entry cache emptied
\* just before the call.
C13_WindowNotTruth ==
    pcMain = "lz_open" =>
        \A path \in SmallPaths :
            get_entry(lazy, path).ret
              = get_entry([lazy EXCEPT !.entry_cache = <<>>], path).ret

\* C14: for a path the index does not hold, or with no mapping, get_entry
\* returns None and leaves the LazyCache as it was.
C14_NoneWhenUnindexedOrUnmapped ==
    ( /\ hist.op = "get_entry"
      /\ \/ hist.path \notin DOMAIN hist.self.index.offsets
         \/ ~hist.self.mmap.some ) =>
        ret = None /\ lazy = hist.self

\* C15: the entry cache holds the paths get_entry last gave an entry for,
\* the latest first, as many as its size allows: a hit moves its entry to
\* the front and removes none, a load into a full cache removes the one
\* entry at the back.
C15_LeastRecentEvicted ==
    lazy.open =>
        /\ WindowPaths(lazy)
             = SubSeq(hist.recency, 1,
                      IF Len(hist.recency) < EntryCacheSize THEN Len(hist.recency)
                      ELSE EntryCacheSize)
        /\ (hist.op = "get_entry" /\ ret.kind = "ok" /\ ret.some) =>
             /\ lazy.entry_cache[1][1] = hist.path
             /\ IF InWindow(hist.self, hist.path)
                THEN Len(lazy.entry_cache) = Len(hist.self.entry_cache)
                ELSE Len(hist.self.entry_cache) = EntryCacheSize =>
                       Tail(lazy.entry_cache)
                         = SubSeq(hist.self.entry_cache, 1, EntryCacheSize - 1)

\* One more path than the entry cache holds was loaded; the first path was
\* asked for again in time and is still there, the second is gone.
C15_Witness ==
    /\ lazy.open
    /\ hist.asked = EntryCacheSize + 1
    /\ Len(lazy.entry_cache) = EntryCacheSize
    /\ InWindow(lazy, LruPath(1))
    /\ ~InWindow(lazy, LruPath(2))

\* C16: the entry cache never holds more than its size, which is 1000.
C16_WindowBounded ==
    lazy.open =>
        /\ lazy.entry_cache_size = 1000
        /\ Len(lazy.entry_cache) <= 1000

\* An entry was loaded into a full entry cache.
C16_Witness ==
    /\ hist.op = "get_entry"
    /\ Len(hist.self.entry_cache) = 1000
    /\ ~InWindow(hist.self, hist.path)
    /\ ret.kind = "ok" /\ ret.some
    /\ Len(lazy.entry_cache) = 1000

\* C17: append_entry leaves every cell the file held, returns the length the
\* file had, and on success has put there the four bytes of the payload's
\* length and the payload; the offsets it returns grow.
C17_AppendOnly ==
    /\ hist.op = "append_entry" =>
         LET before == hist.args.before
             after == Cells(files[hist.self.data_path])
         IN /\ Len(before) <= Len(after)
            /\ SubSeq(after, 1, Len(before)) = before
            /\ ret.kind = "ok" =>
                 /\ ret.offset = Len(before)
                 /\ Inside(after, ret.offset)
                 /\ from_le_bytes(SubSeq(after, ret.offset + 1, ret.offset + 4))
                      = Len(after) - ret.offset - 4
                 /\ DeserializeEntryOk(SubSeq(after, ret.offset + 5, Len(after)))
                 /\ DeserializeEntry(SubSeq(after, ret.offset + 5, Len(after)))
                      = hist.args.dir_entry
    /\ \A i, j \in DOMAIN hist.appended :
          i < j => hist.appended[i].offset < hist.appended[j].offset

\* A second record was appended behind a first.
C17_Witness ==
    /\ hist.op = "append_entry"
    /\ ret.kind = "ok"
    /\ Len(hist.appended) = 2
    /\ hist.args.before # <<>>

\* The record of an indexed path decodes.
Decodes(lz, path) ==
    /\ lz.mmap.some
    /\ LET cells == Cells(lz.mmap.bytes)
           offset == lz.index.offsets[path]
       IN /\ Inside(cells, offset)
          /\ DeserializeEntryOk(
                SubSeq(cells, offset + 5,
                       offset + 4 + from_le_bytes(SubSeq(cells, offset + 1, offset + 4))))

\* C18: get_all does not fail; it returns the indexed paths whose records
\* decode, and leaves out the others.
C18_GetAllSkipsBadRecords ==
    hist.op = "get_all" =>
        /\ ret.kind = "ok"
        /\ DOMAIN ret.entries
             = { path \in DOMAIN hist.self.index.offsets : Decodes(hist.self, path) }

\* C19: after update_index the index holds the offsets, last_scan, root and
\* last_scanned_root it was given and nothing of the old offsets; skip_stats
\* and usn_state are as before.
C19_UpdateReplaces ==
    hist.op = "update_index" =>
        /\ lazy.index.offsets = hist.args.offsets
        /\ lazy.index.last_scan = hist.args.last_scan
        /\ lazy.index.root = hist.args.root
        /\ lazy.index.last_scanned_root = hist.args.last_scanned_root
        /\ lazy.index.skip_stats = hist.self.index.skip_stats
        /\ lazy.index.usn_state = hist.self.index.usn_state

\* update_index was given a map without a path the index held, on an index
\* with skip_stats and a change cursor.
C19_Witness ==
    /\ hist.op = "update_index"
    /\ \E path \in DOMAIN hist.self.index.offsets : path \notin DOMAIN hist.args.offsets
    /\ hist.self.index.skip_stats # <<>>
    /\ hist.self.index.usn_state # 0
    /\ hist.self.index.last_scan # hist.args.last_scan

\* ------------------------------------------------------ claims on skip rules
\* C20: of the names read_dir yields, those that match a skip rule in any
\* case are neither among the children written for the directory nor on the
\* work queue, and nothing below them is claimed; the others are all among
\* the children.
C20_SkipRules ==
    (pcMain = "scope" /\ WorkersSpawned) =>
        /\ \A i \in DOMAIN shared.pending_writes :
              LET dir == shared.pending_writes[i][1]
                  kids == shared.pending_writes[i][2].children
              IN { kids[k] : k \in DOMAIN kids }
                   = { n \in Names : Join(dir, n) \in DOMAIN fs /\ ~RuleMatches(n) }
        /\ \A path \in DOMAIN claims \cup { work_queue[k] : k \in DOMAIN work_queue } :
              \A k \in (Len(locals.scan_root) + 1)..Len(path) : ~RuleMatches(path[k])

\* The entry of a directory that holds a directory named .GIT was written,
\* and the workers are done.
C20_Witness ==
    /\ pcMain = "scope" /\ WorkersDone
    /\ \E i \in DOMAIN shared.pending_writes :
          LET dir == shared.pending_writes[i][1]
          IN /\ Join(dir, ".GIT") \in DOMAIN fs
             /\ fs[Join(dir, ".GIT")] = "dir"
             /\ shared.pending_writes[i][2].children # <<>>

\* ------------------------------------------------------- claims on symlinks
\* C21: a child that is a symlink is never put on the work queue: every
\* path that is queued, claimed or enumerated is made of directories that
\* are no links, so nothing is reached through a link.
C21_SymlinksNotFollowed ==
    WorkersSpawned =>
        \A path \in DOMAIN claims \cup DOMAIN visits
                      \cup { work_queue[k] : k \in DOMAIN work_queue } :
            \A k \in 1..Len(path) :
                /\ SubSeq(path, 1, k) \in DOMAIN fs
                /\ fs[SubSeq(path, 1, k)] # "symlink"

\* The entry of a directory that holds a link to a directory was written
\* with the link among its children, and the workers are done.
C21_Witness ==
    /\ pcMain = "scope" /\ WorkersDone
    /\ \E i \in DOMAIN shared.pending_writes :
          LET dir == shared.pending_writes[i][1]
              kids == shared.pending_writes[i][2].children
          IN \E k \in DOMAIN kids :
                /\ fs[Join(dir, kids[k])] = "symlink"
                /\ Join(dir, kids[k]) \notin DOMAIN claims

\* ------------------------------------------- claims on enumeration failures
\* C22: when read_dir fails on a claimed directory, the worker writes no
\* entry for it, releases its claim and goes back to the queue; at the end
\* of the traversal no claim is left and every directory that is to be
\* reached and can be read has its entry written.
C22_FailureSkipsOneDirectory ==
    /\ [](WorkersSpawned =>
            /\ \A i \in DOMAIN shared.pending_writes :
                  ReadDirOk(fs, shared.pending_writes[i][1])
            /\ WorkersDone =>
                  /\ in_progress = {}
                  /\ \A p \in ReachFrom(fs, locals.scan_root) :
                        fs[p] = "dir" => Written(p) = 1)
    /\ [][\A w \in Workers :
            /\ ( /\ pc[w] = "read_dir"
                 /\ ~ReadDirOk(fs, dir_path[w])
                 /\ pc'[w] # pc[w] ) =>
                   /\ pc'[w] = "release"
                   /\ dir_path'[w] = dir_path[w]
                   /\ shared' = shared
            /\ (pc[w] = "release" /\ pc'[w] # pc[w]) =>
                   /\ pc'[w] = "pop"
                   /\ dir_path[w] \notin in_progress']_vars

\* Of two directories of the root one could not be read and one could; both
\* were claimed, the readable one was written, and the workers are done.
C22_Witness ==
    /\ pcMain = "scope" /\ WorkersDone
    /\ \E p, q \in DOMAIN claims :
          /\ fs[p] = "denied" /\ fs[q] = "dir"
          /\ Len(p) = 2 /\ Len(q) = 2
          /\ Written(p) = 0 /\ Written(q) = 1

\* ------------------------------------------------ claims on a missing drive
\* C24: on a first run whose drive root does not exist, traverse_disk
\* returns an error that names the drive; no worker is started, no file is
\* written, and the cache is as it was when traverse_disk was called.
C24_MissingDriveIsFatal ==
    (DriveMissing /\ (Called \/ pcMain \in {"scope", "save"})) =>
        /\ pcMain = "exit"
        /\ ret = [kind |-> "err", what |-> "drive", drive |-> args.drive]
        /\ \A w \in Workers : pc[w] = "unborn"
        /\ visits = <<>>
        /\ save.step = "idle"
        /\ files = entry.files
        /\ cache = entry.cache

\* traverse_disk was called for drive Z: with an empty cache and has returned.
C24_Witness ==
    /\ pcMain = "exit"
    /\ args.drive = "Z:"
    /\ EmptyAtCall
    /\ ret.kind = "err" /\ ret.what = "drive"

\* ------------------------------------------- claims on freshness and scope
\* C28: when the short-circuit fires, root and last_scanned_root of the
\* cache are what they were before traverse_disk was called.
C28_ScopeUntouchedWhenFresh ==
    (Called /\ Cached) =>
        /\ cache.root = entry.cache.root
        /\ cache.last_scanned_root = entry.cache.last_scanned_root

\* ------------------------------------------------ claims on the scope's end
\* C29: traverse_disk takes the shared cache back, stamps it and saves it
\* only when every worker has returned, so that no worker holds a reference
\* to it; the cache that is saved and handed back holds every entry a worker
\* wrote.
C29_JoinBeforeSave ==
    /\ []((WorkersSpawned /\ pcMain \in {"save", "exit", "crashed"}) =>
            /\ WorkersDone
            /\ cache.last_scan = now
            /\ cache.pending_writes = <<>>
            /\ \A i \in DOMAIN shared.pending_writes :
                  /\ shared.pending_writes[i][1] \in DOMAIN cache.entries
                  /\ cache.entries[shared.pending_writes[i][1]]
                       = shared.pending_writes[i][2]
            /\ save.step # "idle"
            /\ save.data = Whole(SerializeCache(cache))
            /\ (pcMain = "exit" /\ ret.kind = "ok") =>
                  /\ files[CachePath] = save.data
                  /\ ret.total_dirs = Cardinality(DOMAIN cache.entries))
    /\ [][(pcMain = "scope" /\ (pcMain' # pcMain \/ cache' # cache \/ save' # save))
             => (WorkersDone /\ shared' = shared)]_vars

\* A traversal in which three directories were written has been saved and
\* has returned.
C29_Witness ==
    /\ pcMain = "exit" /\ ret.kind = "ok" /\ ~ret.cache_used
    /\ Len(shared.pending_writes) = 3
    /\ files[CachePath] = Whole(SerializeCache(cache))

\* ------------------------------------------------ claims on the cold start
\* C25: open makes its index of the index file alone, maps the data file
\* exactly when it exists and is not empty, whatever it holds, decodes no
\* record and writes nothing; the entry cache is empty after open and gets
\* its first entry from a get_entry or get_all call.
C25_ColdOpen ==
    /\ []((hist.op = "open" /\ pcMain = "lz_open") =>
            LET idx == entry.files[with_extension(LazyPath, "idx")]
                dat == entry.files[with_extension(LazyPath, "dat")]
            IN /\ lazy.mmap.some <=> (dat # NoFile /\ dat.len > 0)
               /\ lazy.mmap.some => lazy.mmap.bytes = dat
               /\ lazy.entry_cache = <<>>
               /\ lazy.index = IF Unparsable(idx, "RkyvCacheIndex")
                               THEN NewIndex(now) ELSE idx.image.index
               /\ files = entry.files
               /\ ret = NoRet)
    /\ [][(lazy.open /\ lazy'.open /\ lazy.entry_cache = <<>>
              /\ lazy'.entry_cache # <<>>)
            => hist'.op \in {"get_entry", "get_all"}]_vars

\* A store was opened whose data file begins with a record that is no entry.
C25_Witness ==
    /\ hist.op = "open" /\ pcMain = "lz_open"
    /\ lazy.mmap.some
    /\ ~DeserializeEntryOk(SubSeq(Cells(lazy.mmap.bytes), 5, 12))
    /\ DOMAIN lazy.index.offsets # {}

\* ------------------------------------------ claims on the output functions
\* C23: whatever the entries of the cache, with children that name their own
\* directory or the root above it among them, each output function returns,
\* and no path of the cache has its children gone through more than once on
\* the way: the calls in progress are never more than the cache has entries.
C23_WalkTerminates ==
    /\ [](\A p \in DOMAIN walk.expanded :
             p \in DOMAIN cache.entries /\ walk.expanded[p] <= 1)
    /\ [](Len(walk.stack) <= Cardinality(DOMAIN cache.entries))
    /\ (pcMain = "print") ~> (pcMain = "printed")

\* An output function has returned from a cache in which an entry below the
\* root names itself and the root among its children, and two entries had
\* their children gone through.
C23_Witness ==
    /\ pcMain = "printed"
    /\ Cardinality(DOMAIN walk.expanded) >= 2
    /\ \E p \in DOMAIN walk.expanded :
          /\ Len(p) >= 2
          /\ cache.entries[p].children = <<"a", "\\", ".">>

\* ------------------------------------------------- claims on remove_entry
\* A path that lies below another: the other's components and more.
Below(path, k) == Len(k) > Len(path) /\ SubSeq(k, 1, Len(path)) = path

\* C27: remove_entry(path) removes the entry of path and the entries of the
\* directories below it, and leaves every other entry as it was, those of
\* siblings whose names begin as path's does among them.
C27_RemovesSubtreeOnly ==
    entry.path # NoPath =>
        cache.entries
          = [k \in { q \in DOMAIN entry.cache.entries :
                        q # entry.path /\ ~Below(entry.path, q) }
               |-> entry.cache.entries[k]]

\* --------------------------------------------------- claims on the sorting
StrictlyAscending(names) ==
    \A i \in 1..(Len(names) - 1) : NameOrd(names[i]) < NameOrd(names[i + 1])
Range(q) == { q[i] : i \in DOMAIN q }

\* C26: the children of every entry the traversal writes are in ascending
\* order and are the names the worker retained; the sequential sort and the
\* parallel sort give that same list from the names in the order they were
\* read, on either side of the threshold.
C26_ChildrenSorted ==
    /\ \A i \in DOMAIN shared.pending_writes :
          StrictlyAscending(shared.pending_writes[i][2].children)
    /\ \A w \in Workers :
          (pc[w] = "release" /\ Written(dir_path[w]) = 1) =>
              \A i \in DOMAIN shared.pending_writes :
                  shared.pending_writes[i][1] = dir_path[w] =>
                      LET kids == shared.pending_writes[i][2].children
                      IN /\ Range(kids) = Range(children[w])
                         /\ Len(kids) = Len(children[w])
                         /\ Sort(children[w]) = kids
                         /\ ParSort(children[w]) = kids

\* An entry of more children than the threshold was written from names
\* that were read in another order.
C26_Witness ==
    \E w \in Workers :
        /\ pc[w] = "release" /\ Written(dir_path[w]) = 1
        /\ Len(children[w]) > ParSortThreshold
        /\ ~StrictlyAscending(children[w])
        /\ children[w][1] = BigName(ParSortThreshold)

\* ----------------------------------------------------- claims on the locks
HeldBy(w) == guards[w].held
\* The guard of worker w was taken or dropped, or its statement has run.
GuardStep(w) == guards'[w] # guards[w]

\* A worker holds one lock at most, only between taking the guard and the
\* end of the block, and no two workers hold the same lock.
OneGuard ==
    \A w \in Workers :
        /\ Cardinality(HeldBy(w)) <= 1
        /\ HeldBy(w) # {} <=> guards[w].at \in {"locked", "used"}
        /\ \A v \in Workers : v # w => HeldBy(v) \cap HeldBy(w) = {}

\* What is behind a lock changes only in a step of a worker that holds the
\* guard of that lock and of no other, and by one element.
UnderGuard(m) ==
    \E w \in Workers :
        /\ HeldBy(w) = {m} /\ guards[w].at = "locked"
        /\ guards'[w].held = {m} /\ guards'[w].at = "used"
SingleOperation ==
    /\ work_queue' # work_queue =>
          /\ UnderGuard("work_queue")
          /\ Len(work_queue') \in {Len(work_queue) - 1, Len(work_queue) + 1}
          /\ UNCHANGED <<in_progress, shared>>
    /\ in_progress' # in_progress =>
          /\ UnderGuard("in_progress")
          /\ Cardinality(in_progress') \in { Cardinality(in_progress) - 1,
                                             Cardinality(in_progress) + 1 }
          /\ UNCHANGED <<work_queue, shared>>
    /\ shared' # shared =>
          /\ UnderGuard("cache")
          /\ Len(shared'.pending_writes) = Len(shared.pending_writes) + 1
          /\ UNCHANGED <<work_queue, in_progress>>
    /\ \A w \in Workers :
          \* the step after the statement under the guard drops the guard
          /\ (guards[w].at = "used" /\ GuardStep(w)) => guards'[w].held = {}
          \* enumeration and sorting go with no guard held
          /\ (/\ pc[w] \in {"read_dir", "entries"}
              /\ \/ iter'[w] # iter[w]
                 \/ children'[w] # children[w]
                 \/ Count(visits', dir_path[w]) # Count(visits, dir_path[w]))
                => HeldBy(w) = {} /\ guards'[w].held = {}

\* While a worker is in its loop, some worker can take a step.
NoDeadlock == ~WorkersDone => ENABLED NextLocks

\* C30: no worker holds two of the three locks at a time; each guard covers
\* a single pop, push, insert or remove and none is held across read_dir,
\* the iteration or the sort; some worker can always take a step until all
\* have left their loops, and they all do leave.
C30_LocksShortAndSingle ==
    /\ [](OneGuard /\ NoDeadlock)
    /\ [][SingleOperation]_vars
    /\ <>[]WorkersDone

\* One worker is about to write its entry under the cache lock while
\* another holds the queue to push a directory it found.
C30_Witness ==
    \E w, v \in Workers :
        /\ HeldBy(w) = {"cache"} /\ guards[w].at = "locked"
        /\ HeldBy(v) = {"work_queue"} /\ guards[v].pushing # NoPath

\* ------------------------------------------- claims on the workers' exit
\* The paths of the workers that are between their claim and their release.
Claimed == { dir_path[w] : w \in { v \in Workers : Holds(v) } }

\* C31: the claim set holds exactly the paths of the workers that are
\* between a successful claim and the release, whether read_dir succeeded or
\* failed; a worker leaves its loop only on an empty queue; so when the
\* last worker has exited the work queue and the claim set are empty.
C31_QuiescentAtExit ==
    /\ [](pcMain = "scope" => in_progress = Claimed)
    /\ [](WorkersDone => work_queue = <<>> /\ in_progress = {})
    /\ [][\A w \in Workers :
            (pc[w] # "done" /\ pc'[w] = "done") => work_queue = <<>>]_vars

\* All workers have exited after one directory was enumerated and written
\* and another was claimed and could not be read.
C31_Witness ==
    /\ pcMain = "scope"
    /\ WorkersDone
    /\ \E p, q \in DOMAIN claims :
          /\ Count(visits, p) = 0
          /\ Count(visits, q) = 1 /\ Written(q) = 1

\* ------------------------------------------------------ claims on a rescan
\* traverse_disk has traversed over a cache that held entries and returned.
Rescanned ==
    /\ pcMain = "exit" /\ ret.kind = "ok" /\ ~ret.cache_used
    /\ ~EmptyAtCall

\* The names of a directory that the skip rules let through.
Retained(path) == { n \in ReadDir(fs, path) : ~should_skip(n, SkipDirs) }

\* The entry a worker builds for the directory as it is on the disk.
NewlyBuilt(e, path) ==
    /\ e.path = path /\ e.name = FileName(path)
    /\ e.modified = now /\ e.size = 0
    /\ Range(e.children) = Retained(path)
    /\ StrictlyAscending(e.children)

\* C32: after a traversal over a cache that held entries, a path that no
\* worker wrote has the entry it had before, or none if it had none, and a
\* path that a worker wrote has the entry built in this traversal.
C32_RescanKeepsAndReplaces ==
    Rescanned =>
        \A p \in DOMAIN entry.cache.entries \cup DOMAIN cache.entries
                   \cup DOMAIN visits \cup DOMAIN claims :
            IF Written(p) > 0
            THEN p \in DOMAIN cache.entries /\ NewlyBuilt(cache.entries[p], p)
            ELSE /\ p \in DOMAIN cache.entries <=> p \in DOMAIN entry.cache.entries
                 /\ p \in DOMAIN cache.entries =>
                        cache.entries[p] = entry.cache.entries[p]

\* A rescan below the drive root has returned: the root's entry is the one
\* of the earlier run, which the disk no longer matches, and the directory
\* scanned has a new one.
C32_Witness ==
    /\ Rescanned
    /\ Written(DriveRoot("C:")) = 0
    /\ ~NewlyBuilt(cache.entries[DriveRoot("C:")], DriveRoot("C:"))
    /\ \E q \in DOMAIN cache.entries : Written(q) = 1

\* -------------------------------------------------------- claims on save
\* The map that the entries give when the writes are put over them one
\* after the other: a written path has the entry of its last write.
Overwritten(entries, writes) ==
    LET paths == { writes[i][1] : i \in DOMAIN writes }
        last(p) == CHOOSE i \in DOMAIN writes :
                      /\ writes[i][1] = p
                      /\ \A j \in DOMAIN writes : writes[j][1] = p => j <= i
    IN [p \in DOMAIN entries \cup paths |->
          IF p \in paths THEN writes[last(p)][2] ELSE entries[p]]

\* save has returned Ok.
Saved == save.step = "ok" /\ pcMain \in {"exit", "opened"}
\* The saved file has been opened again.
Reopened == save.step = "ok" /\ pcMain = "opened"

\* C33: after save has returned Ok the cache has no pending writes and the
\* file holds the cache with the buffer flushed into it; the cache that
\* open makes of that file has the root, the last_scanned_root and the
\* last_scan that were saved, and as entries the earlier entries with the
\* buffered writes put over them in the order they were buffered.
C33_SaveFlushesFirst ==
    /\ (Saved /\ pcMain = "exit" /\ ret.kind = "ok") =>
          /\ cache.pending_writes = <<>>
          /\ cache.entries = Overwritten(shared.entries, shared.pending_writes)
          /\ DeserializeCacheOk(files[CachePath])
          /\ DeserializeCache(files[CachePath]).entries = cache.entries
    /\ Reopened =>
          /\ cache.pending_writes = <<>>
          /\ cache.root = shared.root
          /\ cache.last_scanned_root = shared.last_scanned_root
          /\ cache.last_scan = now
          /\ cache.entries = Overwritten(shared.entries, shared.pending_writes)

\* The reopened cache was saved with a buffer that held two different
\* entries for a path that had an entry already, and with an entry of
\* another path that the buffer did not touch.
C33_Witness ==
    /\ Reopened
    /\ \E p \in DOMAIN shared.entries :
          /\ Len(shared.pending_writes) = 2
          /\ shared.pending_writes[1][1] = p /\ shared.pending_writes[2][1] = p
          /\ shared.pending_writes[1][2] # shared.pending_writes[2][2]
          /\ cache.entries[p] = shared.pending_writes[2][2]
          /\ \E q \in DOMAIN shared.entries :
                q # p /\ cache.entries[q] = shared.entries[q]
    /\ shared.last_scanned_root # shared.root
    /\ shared.last_scan # now

\* --------------------------------------------------- claims on last_scan
\* traverse_disk is running or has returned.
InTraverse == pcMain \in {"opened", "scope", "save"}

\* The step of traverse_disk that takes the shared cache back after the
\* scope has ended.
JoinStep == pcMain = "scope" /\ WorkersDone /\ pcMain' = "save"

\* C34: within traverse_disk last_scan changes in one step only, the one
\* after every worker has returned, and becomes the time of that step; it
\* is then not earlier than the modified time of any entry the traversal
\* wrote; a call that uses the cache as it is, or that fails on a missing
\* drive, returns with the last_scan it was called with.
C34_LastScanOnCompletion ==
    /\ [][(InTraverse /\ cache'.last_scan # cache.last_scan) =>
             (JoinStep /\ cache'.last_scan = now)]_vars
    /\ [](pcMain \in {"save", "exit", "crashed"} /\ WorkersDone =>
             /\ \A i \in DOMAIN shared.pending_writes :
                   shared.pending_writes[i][2].modified <= cache.last_scan
             /\ cache.last_scan >= entry.cache.last_scan)
    /\ []((pcMain = "exit" /\ (Cached \/ (ret.kind = "err" /\ ret.what = "drive")))
             => cache.last_scan = entry.cache.last_scan)

\* A traversal has returned whose workers wrote entries at different times,
\* the last of them before the workers were joined.
C34_Witness ==
    /\ pcMain = "exit" /\ ret.kind = "ok" /\ ~Cached
    /\ \E i, j \in DOMAIN shared.pending_writes :
          /\ shared.pending_writes[i][2].modified
                < shared.pending_writes[j][2].modified
          /\ shared.pending_writes[j][2].modified < cache.last_scan

\* ----------------------------------------------- claims on the USN journal
\* get_changed_directories is not running.
UsnReturned == usn.pc \in {"idle", "panicked"}

\* C35: whenever get_changed_directories is not running, no volume handle
\* that it opened is open, however the call ended; and a query that fails
\* ends the call with an error value.
C35_HandleClosedOnEveryPath ==
    /\ [](UsnReturned => usn.open = {})
    /\ [][(usn.pc = "query" /\ usn'.pc = "idle") => usn'.ret.kind = "err"]_vars

\* ------------------------------------------------ claims on the scheduler
\* The lines of a crontab, none for a user without one.
CronLines(tab) == lines(tab.text)
\* How many lines of the crontab are the entry that install writes.
EntryCount(tab) ==
    Cardinality({ i \in DOMAIN CronLines(tab) :
                    CronLines(tab)[i] = UninstallEntry(cron.exe) })
InstallReturnedOk == cron.op = "install" /\ cron.ret.kind = "ok"
UninstallReturnedOk == cron.op = "uninstall" /\ cron.ret.kind = "ok"

\* C36: after install has returned Ok, a crontab that had the entry as a
\* line is as it was; a crontab that had it at most once has it exactly
\* once; and every line from before is still a line, in its place.
C36_InstallIdempotent ==
    InstallReturnedOk =>
        /\ EntryCount(cron.before) >= 1 =>
              cron.crontab = cron.before /\ ~cron.written
        /\ EntryCount(cron.before) <= 1 => EntryCount(cron.crontab) = 1
        /\ Len(CronLines(cron.before)) <= Len(CronLines(cron.crontab))
        /\ \A i \in DOMAIN CronLines(cron.before) :
              CronLines(cron.crontab)[i] = CronLines(cron.before)[i]

\* C37: after uninstall has returned Ok, a user with no crontab or with a
\* crontab without the entry has what there was before and nothing was
\* written; else the crontab has the lines from before, the entry taken
\* out and every other line kept.
C37_UninstallRemovesEntryOnly ==
    UninstallReturnedOk =>
        IF ~cron.before.exists \/ EntryCount(cron.before) = 0
        THEN cron.crontab = cron.before /\ ~cron.written
        ELSE CronLines(cron.crontab) =
                SelectSeq(CronLines(cron.before),
                          LAMBDA line : line # UninstallEntry(cron.exe))

\* ------------------------------------------------------------------ C38
\* C38: the hot-entry window never holds two entries for the same path:
\* after any sequence of get_entry hits and misses, each path occurs at
\* most once in it.
C38_WindowPathsDistinct ==
    lazy.open =>
        Cardinality({ lazy.entry_cache[i][1] : i \in DOMAIN lazy.entry_cache })
            = Len(lazy.entry_cache)

\* A hit on an entry behind the front of a full window, after misses that
\* filled it and evicted.
C38_Witness ==
    /\ hist.op = "get_entry"
    /\ hist.asked = LruCount
    /\ position(hist.self.entry_cache, hist.path) > 1
    /\ Len(hist.self.entry_cache) = EntryCacheSize
    /\ Len(lazy.entry_cache) = EntryCacheSize
    /\ WindowPaths(lazy)[1] = hist.path
    /\ ret.kind = "ok" /\ ret.some

====
